---- MODULE Spec2Model ----
(***************************************************************************)
(* Model of the migration engine of modx (src/modx/core/migrator.py):      *)
(* CodeMigrator.migrate and the functions it calls, over a file system     *)
(* of absolute paths.                                                      *)
(*                                                                         *)
(* Text is a sequence of symbols (one-character strings; a few fixed       *)
(* literals that are only ever compared whole are written as one symbol).  *)
(* A path is a sequence of names (pathlib's parts); a name is text.  An    *)
(* absolute path starts with the part Root.                                *)
(***************************************************************************)
EXTENDS Integers, Sequences, FiniteSets, TLC

VARIABLES
    fs,           \* the file system: absolute resolved path -> content
    pc,           \* position of the run inside migrate / the CLI command
    interactive,  \* migrate(interactive=...)
    apply,        \* migrate(apply=...)
    use_ai,       \* planner.use_ai
    plan,         \* plan['steps'] as returned by planner.plan()
    temp_dir,     \* self.temp_dir: the call whose mkdtemp() directory it names, 0 for None
    changes,      \* the list returned by _apply_changes_to_temp
    raw,          \* the records appended to `changes` before deduplication, with their step
    log,          \* messages echoed by the patch pipeline
    result,       \* what migrate returned: "none" (still running), TRUE, FALSE
    prompted,     \* click.prompt was called in this run
    response,     \* the operator's answer after .lower().strip(), None before the prompt
    validated,    \* _run_validators was called and what it returned: "none", TRUE, FALSE
    sizeChecked,  \* the size loop of migrate ran to its end without returning
    approved,     \* the local `approved` of migrate
    committed,    \* _apply_changes_to_original was called in this run
    applied,      \* applied_changes returned by _apply_changes_to_original
    fsStart,      \* history: fs when migrate was called
    fsCopied,     \* history: fs right after copytree
    fsPatched,    \* history: fs after the explicit-patch loop of _apply_changes_to_temp
    fsPre,        \* history: fs right before _apply_changes_to_original
    run,          \* the number of this call of migrate on the migrator
    backend,      \* what is_available() answered inside planner.plan(): "none" when not asked
    second,       \* history: what the second loop of the pipeline did with each step
    history,      \* history: one record for each earlier call of migrate on the migrator
    transform_func, \* what the transform_func of the safe transformer returned, by text given
    model,        \* what the model path is given: the texts the backend holds for the two
                  \* requests of a target, whether the method the requests reach takes
                  \* `minimal`, and how the diff tool answers
    gate,         \* inside _run_validators: what the test runner and the linter do, and
                  \* the local `success`
    findings      \* the argument of generate_ai_modernization_steps

vars == <<fs, pc, interactive, apply, use_ai, plan, temp_dir, changes, raw, log, result,
          prompted, response, validated, sizeChecked, approved, committed, applied,
          fsStart, fsCopied, fsPatched, fsPre, run, backend, second, history,
          transform_func, model, gate, findings>>

(***************************************************************************)
(* Bounds of the model.                                                    *)
(***************************************************************************)
MaxSteps == 2      \* longest plan

(***************************************************************************)
(* Text.                                                                   *)
(***************************************************************************)
NL == "\n"

StartsWith(s, pre) == Len(pre) <= Len(s) /\ SubSeq(s, 1, Len(pre)) = pre

EndsWith(s, suf) == Len(suf) <= Len(s) /\ SubSeq(s, Len(s) - Len(suf) + 1, Len(s)) = suf

IsSpace(c) == c \in {" ", "\t", NL}

Lower(c) ==
    CASE c = "Y" -> "y"
      [] c = "E" -> "e"
      [] c = "S" -> "s"
      [] c = "N" -> "n"
      [] c = "M" -> "m"
      [] OTHER -> c

LowerStr(s) == [i \in 1..Len(s) |-> Lower(s[i])]

RECURSIVE LStrip(_)
LStrip(s) == IF s # <<>> /\ IsSpace(s[1]) THEN LStrip(Tail(s)) ELSE s

RECURSIVE RStrip(_)
RStrip(s) == IF s # <<>> /\ IsSpace(s[Len(s)]) THEN RStrip(SubSeq(s, 1, Len(s) - 1)) ELSE s

Strip(s) == RStrip(LStrip(s))

\* str.split('\n'): the pieces between newlines; always at least one piece.
RECURSIVE SplitNL(_, _)
SplitNL(s, cur) ==
    IF s = <<>> THEN <<cur>>
    ELSE IF s[1] = NL THEN <<cur>> \o SplitNL(Tail(s), <<>>)
    ELSE SplitNL(Tail(s), Append(cur, s[1]))

Split(s) == SplitNL(s, <<>>)

\* str.splitlines(): like split('\n') but without the empty piece after a final newline,
\* and no piece at all for the empty text.
SplitLines(s) ==
    IF s = <<>> THEN <<>>
    ELSE LET p == Split(s)
         IN IF s[Len(s)] = NL THEN SubSeq(p, 1, Len(p) - 1) ELSE p

\* '\n'.join(lines)
RECURSIVE JoinNL(_)
JoinNL(lines) ==
    IF lines = <<>> THEN <<>>
    ELSE IF Len(lines) = 1 THEN lines[1]
    ELSE lines[1] \o <<NL>> \o JoinNL(Tail(lines))

(***************************************************************************)
(* Paths.                                                                  *)
(***************************************************************************)
Root == <<"/">>
DotDot == <<".", ".">>

service == <<"s", "e", "r", "v", "i", "c", "e">>

\* self.service_path: the original tree.
ServicePath == <<Root, <<"o">>, <<"p">>>>

\* tempfile.mkdtemp(): a directory of its own for every call.
Digits == <<"1", "2", "3", "4", "5", "6", "7", "8", "9">>
TempDirOf(r) == <<Root, <<"t", Digits[r]>>>>

\* The directory made by the current call, and work_path = temp_dir / "service".
TempDir == TempDirOf(run)
WorkPath == Append(TempDir, service)

IsAbsolute(p) == p # <<>> /\ p[1] = Root

\* pathlib's `base / rel`
Join(base, rel) == IF IsAbsolute(rel) THEN rel ELSE base \o rel

\* Path.resolve() on a tree without symbolic links: '..' steps are folded away.
RECURSIVE ResolveFrom(_, _)
ResolveFrom(acc, rest) ==
    IF rest = <<>> THEN acc
    ELSE IF rest[1] = DotDot
         THEN ResolveFrom(IF Len(acc) > 1 THEN SubSeq(acc, 1, Len(acc) - 1) ELSE acc, Tail(rest))
         ELSE ResolveFrom(Append(acc, rest[1]), Tail(rest))

Resolve(p) == ResolveFrom(<<Root>>, Tail(p))

\* str(path) of an absolute path
RECURSIVE StrFrom(_)
StrFrom(parts) == IF parts = <<>> THEN <<>> ELSE <<"/">> \o parts[1] \o StrFrom(Tail(parts))

Str(p) == IF Len(p) = 1 THEN <<"/">> ELSE StrFrom(Tail(p))

\* PurePath.relative_to succeeds exactly when base's parts are a prefix of p's parts.
IsUnder(p, base) == StartsWith(p, base)
RelativeTo(p, base) == SubSeq(p, Len(base) + 1, Len(p))

\* Path.suffix of the last part: from the last '.', unless that '.' leads or ends the name.
RECURSIVE LastDot(_, _)
LastDot(name, i) == IF i = 0 THEN 0 ELSE IF name[i] = "." THEN i ELSE LastDot(name, i - 1)

Suffix(name) ==
    LET d == LastDot(name, Len(name))
    IN IF d <= 1 \/ d = Len(name) THEN <<>> ELSE SubSeq(name, d, Len(name))

\* Path.with_suffix(s): the name with its suffix replaced by s
WithSuffix(name, s) == SubSeq(name, 1, Len(name) - Len(Suffix(name))) \o s

(***************************************************************************)
(* The file system.  Only files are stored; a directory exists when a file *)
(* lies below it.                                                          *)
(***************************************************************************)
Put(f, k, v) == [x \in DOMAIN f \cup {k} |-> IF x = k THEN v ELSE f[x]]

IsDir(f, d) == \E q \in DOMAIN f : Len(q) > Len(d) /\ StartsWith(q, d)

\* The operating system follows a path part by part: every directory left through
\* a '..' step has to exist.
Walkable(f, p) ==
    \A i \in 2..Len(p) : p[i] = DotDot => IsDir(f, Resolve(SubSeq(p, 1, i - 1)))

IsFile(f, p) == Walkable(f, p) /\ Resolve(p) \in DOMAIN f

\* Path.exists()
Exists(f, p) == Walkable(f, p) /\ (Resolve(p) \in DOMAIN f \/ IsDir(f, Resolve(p)))

\* The files of f below the directory d, as paths relative to d.
Tree(f, d) == {RelativeTo(q, d) : q \in {x \in DOMAIN f : Len(x) > Len(d) /\ StartsWith(x, d)}}

\* The content of the tree below d: relative path -> content.
TreeContent(f, d) == [r \in Tree(f, d) |-> f[d \o r]]

(***************************************************************************)
(* The names and texts the model's trees and plans are built from.         *)
(***************************************************************************)
py == <<".", "p", "y">>
a_py == <<"a">> \o py
x_py == <<"x">> \o py
g_py == <<"g">> \o py
new_py == <<"n", "e", "w">> \o py
missing_py == <<"m", "i", "s", "s">> \o py
n_txt == <<"n", ".", "t", "x", "t">>
build == <<"b", "u", "i", "l", "d">>
Makefile == <<"M", "a", "k", "e", "f", "i", "l", "e">>
modx_backup == <<".", "modx_backup">>
modxignore == <<".", "modxignore">>
gen == <<"g", "e", "n">>
service2 == service \o <<"2">>
requirements_txt == <<"requirements", ".", "t", "x", "t">>
js == <<".", "j", "s">>
java == <<".", "j", "a", "v", "a">>
pom_xml == <<"pom", ".", "x", "m", "l">>
build_gradle == <<"build", ".", "g", "r", "a", "d", "l", "e">>
package_json == <<"package", ".", "j", "s", "o", "n">>
go_mod == <<"go", ".", "m", "o", "d">>
b_py == <<"b">> \o py
app_js == <<"a", "p", "p">> \o js
A_java == <<"A">> \o java
\* Ten more Python files, f0.py .. f9.py, which a walk lists before every other file.
FileDigits == <<"0", "1", "2", "3", "4", "5", "6", "7", "8", "9">>
f_py(i) == <<"f", FileDigits[i]>> \o py

PRINT_ == <<"p", "r", "i", "n", "t", " ">>
DEF_ == <<"d", "e", "f", " ">>
ARROW_ANY == <<"-", ">", " ", "A", "n", "y">>
IMPORT_ANY == <<"from typing import Any">>

T_print == PRINT_ \o <<"x", NL>>                      \* an old-style print statement
T_ok == <<"x", NL>>
T_def == DEF_ \o <<"f", "(", ")", ":", "0", NL>>    \* a top-level def on the first line
T_bad == <<"?", NL>>                                  \* does not compile
T_new == <<"y", NL>>                                  \* content carried by a patch
T_ignore == gen \o <<"/", NL>>                        \* an ignore file naming the directory gen

PyTexts == {T_print, T_ok, T_def, T_bad}

\* A file system from a set of <<path, content>> pairs.
FsOf(S) == [p \in {e[1] : e \in S} |-> (CHOOSE e \in S : e[1] = p)[2]]

\* The files every original tree of the model has, a.py holding c.
CoreFiles(c) ==
    { <<ServicePath \o <<a_py>>, c>>,
      <<ServicePath \o <<n_txt>>, T_ok>> }

\* A tree left by an earlier committed run, with a build directory, an ignored
\* directory, a build file, and a directory next to the original root whose name
\* starts with "service".
ExtraFiles ==
    { <<ServicePath \o <<build, g_py>>, T_print>>,
      <<ServicePath \o <<gen, a_py>>, T_ok>>,
      <<ServicePath \o <<modxignore>>, T_ignore>>,
      <<ServicePath \o <<Makefile>>, T_ok>>,
      <<ServicePath \o <<a_py \o modx_backup>>, T_ok>>,
      <<<<Root, <<"o">>, service2, x_py>>, T_ok>> }

Trees == {FsOf(CoreFiles(c)) : c \in PyTexts} \cup {FsOf(CoreFiles(T_print) \cup ExtraFiles)}

\* The order in which a directory walk (rglob, os.walk) of the model lists relative paths.
WalkOrder ==
    [i \in 1..Len(FileDigits) |-> <<f_py(i)>>] \o
    << <<a_py>>, <<n_txt>>, <<Makefile>>, <<modxignore>>, <<a_py \o modx_backup>>,
       <<new_py>>, <<build, g_py>>, <<gen, a_py>>, <<b_py>>, <<requirements_txt>>,
       <<package_json>>, <<app_js>>, <<pom_xml>>, <<build_gradle>>, <<A_java>>, <<go_mod>>,
       <<b_py \o modx_backup>>, <<requirements_txt \o modx_backup>>, <<app_js \o modx_backup>>,
       <<pom_xml \o modx_backup>>, <<A_java \o modx_backup>>, <<n_txt \o modx_backup>>,
       <<Makefile \o modx_backup>>, <<f_py(1) \o modx_backup>> >>

(***************************************************************************)
(* Plans.  A step is a record of the keys the migrator reads:              *)
(* id, files_affected (<<>> when absent), estimated_loc and patch (a       *)
(* sequence of <<path, content>> entries in the mapping's order).          *)
(***************************************************************************)
Step(id, files, est, patch) ==
    [id |-> id, files_affected |-> files, estimated_loc |-> est, patch |-> patch]

SizeLimit == 500

StepUniverse ==
    { Step("python_print_function", <<<<a_py>>>>, SizeLimit, <<>>),
      Step("python_print_function", <<<<a_py>>, <<missing_py>>>>, 5, <<>>),
      Step("python_print_function", <<<<a_py>>>>, SizeLimit + 1, <<>>),
      Step("ai_fix", <<<<a_py>>>>, 5, << <<<<a_py>>, T_new>> >>),
      Step("ai_fix", <<<<a_py>>>>, 5, << <<<<a_py>>, T_print>> >>),
      Step("ai_fix", <<<<n_txt>>>>, 5, << <<<<n_txt>>, T_new>>, <<<<Makefile>>, T_new>> >>),
      Step("ai_fix", <<>>, 5,
           << <<<<DotDot, service2, x_py>>, T_new>>, <<<<new_py>>, T_new>>,
              <<ServicePath \o <<a_py>>, T_new>>, <<<<build, g_py>>, T_new>> >>) }

RECURSIVE SeqsUpTo(_, _)
SeqsUpTo(S, n) ==
    IF n = 0 THEN {<<>>}
    ELSE LET shorter == SeqsUpTo(S, n - 1)
         IN shorter \cup {Append(q, e) : q \in shorter, e \in S}

Plans == SeqsUpTo(StepUniverse, MaxSteps)

(***************************************************************************)
(* Deny-set and containment (_apply_changes_to_temp, lines 112-130).       *)
(***************************************************************************)
BaselineDeny ==
    { <<".", "pytest_cache">>, <<"__pycache__">>, <<".", "venv">>, <<"node_modules">>,
      <<"d", "i", "s", "t">>, build }

\* The directory entries of an ignore file: stripped lines that are not blank, are
\* no comment and end with '/', without that '/'.
IgnoreEntries(f, file) ==
    IF ~IsFile(f, file) THEN {}
    ELSE LET lines == SplitLines(f[Resolve(file)])
             ok(l) == l # <<>> /\ l[1] # "#" /\ l[Len(l)] = "/"
         IN {SubSeq(Strip(lines[i]), 1, Len(Strip(lines[i])) - 1) :
                i \in {j \in 1..Len(lines) : ok(Strip(lines[j]))}}

deny_dirs(f) == BaselineDeny \cup IgnoreEntries(f, ServicePath \o <<modxignore>>)

is_denied(f, p) ==
    IF ~IsUnder(p, WorkPath) THEN TRUE
    ELSE LET rel == RelativeTo(p, WorkPath)
         IN \E i \in 1..Len(rel) : rel[i] \in deny_dirs(f)

\* str(target.resolve()).startswith(str(work_path.resolve()))
InsideWork(p) == StartsWith(Str(Resolve(p)), Str(Resolve(WorkPath)))

(***************************************************************************)
(* record_change (lines 132-148).                                          *)
(***************************************************************************)
None == <<"<None>">>

RECURSIVE CommonPrefix(_, _)
CommonPrefix(a, b) ==
    IF a = <<>> \/ b = <<>> \/ a[1] # b[1] THEN 0 ELSE 1 + CommonPrefix(Tail(a), Tail(b))

Reverse(q) == [i \in 1..Len(q) |-> q[Len(q) + 1 - i]]

\* The lines a line diff of a against b removes and adds, for texts whose differing
\* middle parts share no line: what lies between the common head and the common tail.
Removed(a, b) ==
    LET h == CommonPrefix(a, b)
        t == CommonPrefix(Reverse(SubSeq(a, h + 1, Len(a))), Reverse(SubSeq(b, h + 1, Len(b))))
    IN SubSeq(a, h + 1, Len(a) - t)

Added(a, b) == Removed(b, a)

Count(q, Test(_)) == Len(SelectSeq(q, Test))

\* The count of line 141: diff lines starting with '+' or '-' but not with '+++', '---'.
lines_changed(old, new) ==
    IF old = None \/ new = None THEN 0
    ELSE LET a == SplitLines(old)
             b == SplitLines(new)
             minus(l) == ~StartsWith(l, <<"-", "-">>)
             plus(l) == ~StartsWith(l, <<"+", "+">>)
         IN Count(Removed(a, b), minus) + Count(Added(a, b), plus)

\* The record appended to `changes`, with the index of the step it was made for.
record_change(k, file_path, change_type, old, new) ==
    [step |-> k, file |-> RelativeTo(file_path, WorkPath), type |-> change_type,
     lines_changed |-> lines_changed(old, new)]

(***************************************************************************)
(* _apply_changes_to_temp.  The pipeline threads a record                  *)
(* [fs, raw, log] through its loops.                                       *)
(***************************************************************************)

\* Faulty variant of PatchEntry: the entry is written to the original file, not to the copy.
PatchEntryIntoOriginal(st, k, rel, content) ==
    LET target == Join(WorkPath, rel)
        orig_target == Join(ServicePath, rel)
    IN IF is_denied(st.fs, target) \/ ~InsideWork(target) THEN st
       ELSE IF ~IsFile(st.fs, orig_target) THEN st
       ELSE [st EXCEPT !.fs = Put(@, Resolve(orig_target), content),
                       !.raw = Append(@, record_change(k, target, "ai_patch",
                                                       st.fs[Resolve(orig_target)], content))]

\* One entry of a step's patch mapping (lines 173-201).
PatchEntry(st, k, rel, content) ==
    LET target == Join(WorkPath, rel)
        orig_target == Join(ServicePath, rel)
    IN IF is_denied(st.fs, target) \/ ~InsideWork(target) THEN st
       ELSE IF ~Exists(st.fs, orig_target)
            THEN [st EXCEPT !.log = @ \cup {[msg |-> "unknown_path", step |-> k, paths |-> <<rel>>]}]
       ELSE IF IsDir(st.fs, Resolve(target)) \/ ~Walkable(st.fs, target)
            THEN st      \* write_text raises; the entry is skipped
       ELSE LET old == IF IsFile(st.fs, target) THEN st.fs[Resolve(target)] ELSE None
            IN [st EXCEPT !.fs = Put(@, Resolve(target), content),
                          !.raw = Append(@, record_change(k, target, "ai_patch", old, content))]

RECURSIVE PatchEntries(_, _, _)
PatchEntries(st, k, patch) ==
    IF patch = <<>> THEN st
    ELSE PatchEntries(PatchEntry(st, k, patch[1][1], patch[1][2]), k, Tail(patch))

\* The first loop over the steps (lines 170-201).
RECURSIVE PatchLoop(_, _, _)
PatchLoop(st, steps, k) ==
    IF k > Len(steps) THEN st
    ELSE PatchLoop(PatchEntries(st, k, steps[k].patch), steps, k + 1)

(***************************************************************************)
(* _fix_python_print_statements (lines 519-550).                           *)
(***************************************************************************)
\* s.find(sub): the first position at or after i where sub occurs, 0 when there is none.
RECURSIVE Find(_, _, _)
Find(s, sub, i) ==
    IF i + Len(sub) - 1 > Len(s) THEN 0
    ELSE IF SubSeq(s, i, i + Len(sub) - 1) = sub THEN i
    ELSE Find(s, sub, i + 1)

Contains(s, sub) == Find(s, sub, 1) # 0

\* s.replace(old, new, 1)
ReplaceFirst(s, old, new) ==
    LET i == Find(s, old, 1)
    IN IF i = 0 THEN s
       ELSE SubSeq(s, 1, i - 1) \o new \o SubSeq(s, i + Len(old), Len(s))

IsOldPrint(line) ==
    StartsWith(Strip(line), PRINT_) /\ ~EndsWith(Strip(line), <<")">>)

\* Faulty variant of FixPrintLine: the word print is dropped and no call is made.
FixPrintLineDroppingPrint(line) ==
    IF IsOldPrint(line) THEN ReplaceFirst(line, PRINT_, <<>>) ELSE line

FixPrintLine(line) ==
    IF IsOldPrint(line)
    THEN ReplaceFirst(line, PRINT_, <<"p", "r", "i", "n", "t", "(">>) \o <<")">>
    ELSE line

\* The import that is put in front of a text (after a '#!' line) when it uses Any.
WithAnyImport(text) ==
    IF Contains(text, ARROW_ANY) /\ ~Contains(text, IMPORT_ANY)
    THEN LET idx == Find(text, <<NL>>, 1)
             at == IF StartsWith(text, <<"#", "!">>) /\ idx # 0 THEN idx ELSE 0
         IN SubSeq(text, 1, at) \o IMPORT_ANY \o <<NL, NL>> \o SubSeq(text, at + 1, Len(text))
    ELSE text

\* sum(1 for old, new in zip(a, b) if old != new)
ZipDiff(a, b) ==
    LET n == IF Len(a) < Len(b) THEN Len(a) ELSE Len(b)
    IN Cardinality({i \in 1..n : a[i] # b[i]})

\* The content the print fix leaves in a file holding `content`.
FixPrintText(content) ==
    LET lines == Split(content)
        fixed == [i \in 1..Len(lines) |-> FixPrintLine(lines[i])]
    IN IF fixed = lines THEN content ELSE WithAnyImport(JoinNL(fixed))

\* Path.rglob('*' + suffix) below the working copy, in walk order.
RGlob(f, suffix) ==
    LET hit(rel) == (WorkPath \o rel) \in DOMAIN f /\ EndsWith(rel[Len(rel)], suffix)
    IN SelectSeq(WalkOrder, hit)

RECURSIVE FixPrintFiles(_, _, _)
FixPrintFiles(st, k, files) ==
    IF files = <<>> THEN st
    ELSE LET file == WorkPath \o files[1]
             content == st.fs[file]
             new_content == FixPrintText(content)
             next ==
                 IF \E i \in 1..Len(Split(content)) : IsOldPrint(Split(content)[i])
                 THEN [st EXCEPT
                         !.fs = Put(@, file, new_content),
                         !.raw = Append(@, [step |-> k, file |-> files[1],
                                            type |-> "python_print_fix",
                                            lines_changed |->
                                                ZipDiff(Split(content), Split(new_content))])]
                 ELSE st
         IN FixPrintFiles(next, k, Tail(files))

_fix_python_print_statements(st, k) == FixPrintFiles(st, k, RGlob(st.fs, py))

(***************************************************************************)
(* _add_basic_type_hints (lines 552-594).                                  *)
(***************************************************************************)
RETURN_ == <<"r", "e", "t", "u", "r", "n", " ">>

\* len(line) - len(line.lstrip(' '))
RECURSIVE Indent(_)
Indent(line) == IF line # <<>> /\ line[1] = " " THEN 1 + Indent(Tail(line)) ELSE 0

\* The scan of lines 566-572 from line j on, for a def of indentation `indent`.
RECURSIVE HasReturn(_, _, _)
HasReturn(lines, j, indent) ==
    IF j > Len(lines) THEN FALSE
    ELSE IF StartsWith(Strip(lines[j]), DEF_) /\ Indent(lines[j]) <= indent THEN FALSE
    ELSE IF Contains(Strip(lines[j]), RETURN_) THEN TRUE
    ELSE HasReturn(lines, j + 1, indent)

\* The test of line 563 together with the scan: line i is given a return annotation.
IsBareDef(lines, i) ==
    /\ StartsWith(Strip(lines[i]), DEF_)
    /\ ~Contains(lines[i], <<"-", ">">>)
    /\ EndsWith(Strip(lines[i]), <<":">>)
    /\ ~HasReturn(lines, i + 1, Indent(lines[i]))

AddHintLine(line) == ReplaceFirst(line, <<")", ":">>, <<")", " ">> \o ARROW_ANY \o <<":">>)

\* The content the type-hint pass leaves in a file holding `content`.
AddHintsText(content) ==
    LET lines == Split(content)
        hinted == [i \in 1..Len(lines) |->
                      IF IsBareDef(lines, i) THEN AddHintLine(lines[i]) ELSE lines[i]]
    IN IF \E i \in 1..Len(lines) : IsBareDef(lines, i)
       THEN WithAnyImport(JoinNL(hinted))
       ELSE content

RECURSIVE AddHintsFiles(_, _, _)
AddHintsFiles(st, k, files) ==
    IF files = <<>> THEN st
    ELSE LET file == WorkPath \o files[1]
             content == st.fs[file]
             lines == Split(content)
             next ==
                 IF \E i \in 1..Len(lines) : IsBareDef(lines, i)
                 THEN [st EXCEPT
                         !.fs = Put(@, file, AddHintsText(content)),
                         !.raw = Append(@, [step |-> k, file |-> files[1],
                                            type |-> "type_hints", lines_changed |-> 1])]
                 ELSE st
         IN AddHintsFiles(next, k, Tail(files))

\* py_files[:2]
_add_basic_type_hints(st, k) ==
    LET py_files == RGlob(st.fs, py)
    IN AddHintsFiles(st, k, SubSeq(py_files, 1, IF Len(py_files) < 2 THEN Len(py_files) ELSE 2))

(***************************************************************************)
(* The update_dependencies branch of the dispatch (lines 354-378).         *)
(***************************************************************************)
EQEQ == <<"=", "=">>

\* One line of requirements.txt (lines 362-372): a pin `name==0.…` becomes `name>=1.0`.
IsOldPin(ln) ==
    LET s == Strip(ln)
        at == Find(s, EQEQ, 1)
    IN /\ s # <<>> /\ s[1] # "#"
       /\ at # 0
       /\ StartsWith(SubSeq(s, at + 2, Len(s)), <<"0", ".">>)

BumpPinLine(ln) ==
    LET s == Strip(ln)
    IN IF IsOldPin(ln)
       THEN SubSeq(s, 1, Find(s, EQEQ, 1) - 1) \o <<">", "=", "1", ".", "0">>
       ELSE ln

BumpPinsText(old) ==
    LET lines == SplitLines(old)
    IN IF \E i \in 1..Len(lines) : IsOldPin(lines[i])
       THEN JoinNL([i \in 1..Len(lines) |-> BumpPinLine(lines[i])]) \o <<NL>>
       ELSE old

update_dependencies(st, k) ==
    LET req == WorkPath \o <<requirements_txt>>
    IN IF req \in DOMAIN st.fs /\ ~is_denied(st.fs, req)
          /\ BumpPinsText(st.fs[req]) # st.fs[req]
       THEN [st EXCEPT
               !.fs = Put(@, req, BumpPinsText(st.fs[req])),
               !.raw = Append(@, [step |-> k, file |-> <<requirements_txt>>,
                                  type |-> "update_dependencies",
                                  lines_changed |-> ZipDiff(SplitLines(st.fs[req]),
                                                            SplitLines(BumpPinsText(st.fs[req])))])]
       ELSE st

(***************************************************************************)
(* The es6_syntax branch of the dispatch (lines 379-399).                  *)
(***************************************************************************)
VAR_ == <<"v", "a", "r", " ">>
LET_ == <<"l", "e", "t", " ">>

IsVarLine(ln) == StartsWith(LStrip(ln), VAR_)

\* Faulty variant of LetLine: the line is kept as it is.
LetLineKeepsVar(ln) == ln

\* indent + stripped.replace('var ', 'let ', 1)
LetLine(ln) ==
    LET stripped == LStrip(ln)
    IN IF IsVarLine(ln)
       THEN SubSeq(ln, 1, Len(ln) - Len(stripped)) \o ReplaceFirst(stripped, VAR_, LET_)
       ELSE ln

\* Line 395: the final newline is added when the old text had none.
Es6Text(old) ==
    LET lines == SplitLines(old)
    IN IF \E i \in 1..Len(lines) : IsVarLine(lines[i])
       THEN JoinNL([i \in 1..Len(lines) |-> LetLine(lines[i])])
            \o (IF EndsWith(old, <<NL>>) THEN <<>> ELSE <<NL>>)
       ELSE old

RECURSIVE Es6Files(_, _, _)
Es6Files(st, k, files) ==
    IF files = <<>> THEN st
    ELSE LET jf == WorkPath \o files[1]
             old == st.fs[jf]
             next ==
                 IF ~is_denied(st.fs, jf)
                    /\ \E i \in 1..Len(SplitLines(old)) : IsVarLine(SplitLines(old)[i])
                 THEN [st EXCEPT
                         !.fs = Put(@, jf, Es6Text(old)),
                         !.raw = Append(@, [step |-> k, file |-> files[1], type |-> "es6_syntax",
                                            lines_changed |-> ZipDiff(SplitLines(old),
                                                                      SplitLines(Es6Text(old)))])]
                 ELSE st
         IN Es6Files(next, k, Tail(files))

es6_syntax(st, k) == Es6Files(st, k, RGlob(st.fs, js))

(***************************************************************************)
(* The java_modernize branch of the dispatch (lines 400-500).  The tags    *)
(* and words its patterns look for are single symbols of the text; version *)
(* numbers are written digit by digit.                                     *)
(***************************************************************************)
MODX_DETERMINISTIC_FALLBACK == "MODX_DETERMINISTIC_FALLBACK"

VerChars == {"0", "1", "2", "3", "4", "5", "6", "7", "8", "9", "."}
Seventeen == <<"1", "7">>

\* The first position from i on that holds no white space (\s*), and no version
\* character ([0-9.]+).
RECURSIVE SkipSpace(_, _)
SkipSpace(t, i) == IF i <= Len(t) /\ IsSpace(t[i]) THEN SkipSpace(t, i + 1) ELSE i

RECURSIVE SkipVer(_, _)
SkipVer(t, i) == IF i <= Len(t) /\ t[i] \in VerChars THEN SkipVer(t, i + 1) ELSE i

\* A match of (open\s*)(value)(\s*close) that starts at i: the positions of its
\* value and of its end; `values` restricts the value, {} standing for [0-9.]+.
TagMatch(t, i, open, close, values) ==
    LET j == SkipSpace(t, i + 1)
        k == SkipVer(t, j)
        e == SkipSpace(t, k)
    IN [ok |-> /\ i <= Len(t) /\ t[i] = open
               /\ k > j
               /\ (values = {} \/ SubSeq(t, j, k - 1) \in values)
               /\ e <= Len(t) /\ t[e] = close,
        from |-> j, to |-> k - 1, end |-> e]

\* re.sub of such a pattern by group 1, 17, group 3 (lines 418-427); m is the match
\* tried at position i.
RECURSIVE SetVersion17(_, _, _, _, _)
SetVersion17At(t, i, open, close, values, m) ==
    IF m.ok
    THEN SubSeq(t, i, m.from - 1) \o Seventeen \o SubSeq(t, m.to + 1, m.end)
         \o SetVersion17(t, m.end + 1, open, close, values)
    ELSE <<t[i]>> \o SetVersion17(t, i + 1, open, close, values)

SetVersion17(t, i, open, close, values) ==
    IF i > Len(t) THEN <<>>
    ELSE SetVersion17At(t, i, open, close, values, TagMatch(t, i, open, close, values))

OneEight == {<<"1", ".", "8">>, <<"8">>}

\* re.sub inside the parent block (line 435): a version that does not start with 3
\* becomes <version>3.1.0</version>.
RECURSIVE BumpParentVersions(_, _)
BumpParentVersionAt(t, i, m) ==
    IF m.ok
    THEN (IF t[m.from] = "3" THEN SubSeq(t, i, m.end)
          ELSE <<"<version>", "3", ".", "1", ".", "0", "</version>">>)
         \o BumpParentVersions(t, m.end + 1)
    ELSE <<t[i]>> \o BumpParentVersions(t, i + 1)

BumpParentVersions(t, i) ==
    IF i > Len(t) THEN <<>>
    ELSE BumpParentVersionAt(t, i, TagMatch(t, i, "<version>", "</version>", {}))

\* A match of open\s*word\s*close that starts at i; its end, 0 when there is none.
WordTagEnd(t, i, open, word, close) ==
    LET j == SkipSpace(t, i + 1)
        e == SkipSpace(t, j + 1)
    IN IF i <= Len(t) /\ t[i] = open /\ j <= Len(t) /\ t[j] = word
          /\ e <= Len(t) /\ t[e] = close
       THEN e ELSE 0

\* The least position from i on where such a match starts, 0 when there is none.
RECURSIVE FirstWordTag(_, _, _, _, _)
FirstWordTag(t, i, open, word, close) ==
    IF i > Len(t) THEN 0
    ELSE IF WordTagEnd(t, i, open, word, close) # 0 THEN i
    ELSE FirstWordTag(t, i + 1, open, word, close)

\* The Spring Boot parent block found by re.search (line 431): <<first, last>>
\* positions, <<0, 0>> when there is none.
ParentBlock(t) ==
    LET s == Find(t, <<"<parent>">>, 1)
        g == IF s = 0 THEN 0
             ELSE FirstWordTag(t, s + 1, "<groupId>", "org.springframework.boot", "</groupId>")
        ge == IF g = 0 THEN 0
              ELSE WordTagEnd(t, g, "<groupId>", "org.springframework.boot", "</groupId>")
        a == IF g = 0 THEN 0
             ELSE FirstWordTag(t, ge + 1, "<artifactId>", "spring-boot-starter-parent",
                               "</artifactId>")
        ae == IF a = 0 THEN 0
              ELSE WordTagEnd(t, a, "<artifactId>", "spring-boot-starter-parent", "</artifactId>")
        e == IF a = 0 THEN 0 ELSE Find(t, <<"</parent>">>, ae + 1)
    IN IF e = 0 THEN <<0, 0>> ELSE <<s, e>>

\* s.replace(old, new): every occurrence, from the left, without overlap.
RECURSIVE ReplaceAll(_, _, _)
ReplaceAll(t, old, new) ==
    LET i == Find(t, old, 1)
    IN IF i = 0 \/ old = <<>> THEN t
       ELSE SubSeq(t, 1, i - 1) \o new \o ReplaceAll(SubSeq(t, i + Len(old), Len(t)), old, new)

\* Lines 429-438: the parent block pb of the text, when it holds a version, gives way
\* to the block with its versions bumped.
BumpParent(new, pb) ==
    IF pb # <<>> /\ Contains(pb, <<"<version>">>)
    THEN ReplaceAll(new, pb, BumpParentVersions(pb, 1))
    ELSE new

\* The part of the text that the positions b = <<first, last>> name, <<>> for <<0, 0>>.
Block(t, b) == IF b[1] = 0 THEN <<>> ELSE SubSeq(t, b[1], b[2])

SpringBootParent(new) == BumpParent(new, Block(new, ParentBlock(new)))

\* The text computed for a pom.xml (lines 415-438), before the marker is put in front.
PomText(old) ==
    SpringBootParent(
        SetVersion17(
            SetVersion17(
                SetVersion17(old, 1, "<java.version>", "</java.version>", {}),
                1, "<maven.compiler.source>", "</maven.compiler.source>", OneEight),
            1, "<maven.compiler.target>", "</maven.compiler.target>", OneEight))

JV_1_8 == "JavaVersion.VERSION_1_8"
JV_17 == "JavaVersion.VERSION_17"

\* (1\.8|"1\.8"|JavaVersion\.VERSION_1_8) at position j: the length matched, 0 for none.
OldJavaAt(t, j) ==
    IF j + 2 <= Len(t) /\ SubSeq(t, j, j + 2) = <<"1", ".", "8">> THEN 3
    ELSE IF j + 4 <= Len(t) /\ SubSeq(t, j, j + 4) = <<"\"", "1", ".", "8", "\"">> THEN 5
    ELSE IF j <= Len(t) /\ t[j] = JV_1_8 THEN 1
    ELSE 0

\* re.sub of (word\s*=\s*)(old Java) by group 1 and 17 (lines 457-462).
RECURSIVE SetCompat17(_, _, _)
SetCompat17(t, i, word) ==
    IF i > Len(t) THEN <<>>
    ELSE LET eq == SkipSpace(t, i + 1)
             j == SkipSpace(t, eq + 1)
             ok == t[i] = word /\ eq <= Len(t) /\ t[eq] = "=" /\ OldJavaAt(t, j) # 0
         IN IF ok
            THEN SubSeq(t, i, j - 1) \o Seventeen \o SetCompat17(t, j + OldJavaAt(t, j), word)
            ELSE <<t[i]>> \o SetCompat17(t, i + 1, word)

\* The text computed for a build.gradle (lines 455-464).
GradleText(old) ==
    ReplaceAll(SetCompat17(SetCompat17(old, 1, "sourceCompatibility"), 1, "targetCompatibility"),
               <<JV_1_8>>, <<JV_17>>)

\* re.sub(r"\bimport\s+javax\.", 'import jakarta.', ...) (line 487).
RECURSIVE ImportJakarta(_, _)
ImportJakarta(t, i) ==
    IF i > Len(t) THEN <<>>
    ELSE LET j == SkipSpace(t, i + 1)
         IN IF t[i] = "import" /\ j > i + 1 /\ j <= Len(t) /\ t[j] = "javax."
            THEN <<"import", " ", "jakarta.">> \o ImportJakarta(t, j + 1)
            ELSE <<t[i]>> \o ImportJakarta(t, i + 1)

\* The text computed for a Java source (lines 485-491); the pattern of line 489 and
\* the replace of line 491 both turn a javax. into jakarta.
JavaText(old) == ReplaceAll(ImportJakarta(old, 1), <<"javax.">>, <<"jakarta.">>)

CountNL(t) == Len(SelectSeq(t, LAMBDA c : c = NL))

\* max(1, new.count('\n') - old.count('\n'))
JavaLinesChanged(old, new) ==
    IF CountNL(new) - CountNL(old) > 1 THEN CountNL(new) - CountNL(old) ELSE 1

\* The three loops of the branch over pom.xml files (lines 410-446), build.gradle
\* files (450-472) and Java sources (475-500): a file whose computed text differs is
\* written with the marker line in front.
\* The text computed for a file of the kind.
JavaKindText(kind, old) ==
    CASE kind = "pom" -> PomText(old)
      [] kind = "gradle" -> GradleText(old)
      [] OTHER -> JavaText(old)

\* One file of a loop: rel holds old, and new is the text computed for it.
JavaFile(st, k, rel, kind, old, new) ==
    LET file == WorkPath \o rel
        marker == CASE kind = "pom" -> <<"<!-- ", MODX_DETERMINISTIC_FALLBACK, " -->", NL>>
                    [] kind = "gradle" -> <<"// ", MODX_DETERMINISTIC_FALLBACK, NL>>
                    [] OTHER -> <<"/* ", MODX_DETERMINISTIC_FALLBACK, " */", NL>>
        skip == CASE kind = "pom" -> FALSE
                  [] kind = "gradle" -> is_denied(st.fs, file)
                  [] OTHER -> \/ is_denied(st.fs, file)
                              \/ old = <<>>
                              \/ Contains(old, <<MODX_DETERMINISTIC_FALLBACK>>)
    IN IF ~skip /\ new # old
       THEN [st EXCEPT
               !.fs = Put(@, file, marker \o new),
               !.raw = Append(@, [step |-> k, file |-> rel,
                                  type |-> "java_modernize",
                                  lines_changed |-> JavaLinesChanged(old, new)])]
       ELSE st

RECURSIVE JavaFiles(_, _, _, _)
JavaFiles(st, k, files, kind) ==
    IF files = <<>> THEN st
    ELSE JavaFiles(JavaFile(st, k, files[1], kind, st.fs[WorkPath \o files[1]],
                            JavaKindText(kind, st.fs[WorkPath \o files[1]])),
                   k, Tail(files), kind)

\* Path.rglob(name): the files of that name below the working copy, in walk order.
RGlobName(f, name) ==
    LET hit(rel) == (WorkPath \o rel) \in DOMAIN f /\ rel[Len(rel)] = name
    IN SelectSeq(WalkOrder, hit)

\* pom.xml files, then build.gradle files, then the Java sources listed at the start.
java_modernize(st, k) ==
    LET java_files == RGlob(st.fs, java)
        st1 == JavaFiles(st, k, RGlobName(st.fs, pom_xml), "pom")
        st2 == JavaFiles(st1, k, RGlobName(st1.fs, build_gradle), "gradle")
    IN JavaFiles(st2, k, java_files, "java")

(***************************************************************************)
(* The second loop over the steps (lines 203-502).                         *)
(***************************************************************************)
\* AIModernizer.generate_modernization_diff takes no `minimal` argument: the calls of
\* lines 264 and 279 pass minimal=..., raise TypeError, and the handler sets ''.
generate_modernization_diff == <<>>

NO_DIFF_AVAILABLE == <<"NO_DIFF_AVAILABLE">>

\* `model` of a run in which the backend holds no text and the tool runs.
NoAnswers ==
    [accepts_minimal |-> FALSE, first |-> <<>>, second |-> <<>>, other |-> <<>>, git |-> "ok"]

\* The test of line 294 for a usable diff.
ValidDiff(diff_text) ==
    /\ diff_text # <<>>
    /\ StartsWith(LStrip(diff_text), <<"-", "-", "-">>)
    /\ Contains(diff_text, <<"+", "+", "+">>)

\* The audit file of an attempt (lines 268-275, 282-289).
AttemptPath(sid, n) ==
    TempDir \o << <<".", "modx_artifacts">>, <<"ai_diffs">>, <<"ts">>,
                 <<"step_", sid, "_attempt_", n, ".", "diff">> >>


\* The files of a list that lie in no denied directory.
NotDenied(f, files) ==
    LET ok(rel) == ~is_denied(f, WorkPath \o rel)
    IN SelectSeq(files, ok)

\* `targets` of a step (lines 205-222): the declared files, or the default of the id.
\* (No step of the model carries the key 'files'.)
Targets(f, step) ==
    LET has(name) == (WorkPath \o <<name>>) \in DOMAIN f
        sid == step.id
    IN IF step.files_affected # <<>> THEN step.files_affected
       ELSE IF sid = "es6_syntax" THEN NotDenied(f, RGlob(f, js))
       ELSE IF sid \in {"update_js_deps", "update_dependencies"}
            THEN (IF has(package_json) THEN <<<<package_json>>>>
                  ELSE IF has(requirements_txt) THEN <<<<requirements_txt>>>>
                  ELSE <<>>)
       ELSE IF sid = "go_modules" THEN (IF has(go_mod) THEN <<<<go_mod>>>> ELSE <<>>)
       ELSE IF sid = "java_modernize" THEN NotDenied(f, RGlob(f, java))
       ELSE <<>>

\* norm_targets (lines 224-231).
NormTargets(f, targets) ==
    LET p(i) == Resolve(Join(WorkPath, targets[i]))
        ok(i) == StartsWith(Str(p(i)), Str(Resolve(WorkPath))) /\ ~is_denied(f, p(i))
        keep == SelectSeq([i \in 1..Len(targets) |-> i], ok)
    IN [j \in 1..Len(keep) |-> p(keep[j])]

\* One target of the model path (lines 251-345).  Returns the new pipeline state;
\* changed_any is set by an applied diff, which no attempt yields.
AiTarget(st, k, sid, tgt) ==
    LET diff_text1 == generate_modernization_diff
        fs1 == Put(st.fs, AttemptPath(sid, "1"), diff_text1)
        retry == diff_text1 = <<>> \/ Strip(diff_text1) = NO_DIFF_AVAILABLE
                 \/ ~StartsWith(LStrip(diff_text1), <<"-", "-", "-">>)
        diff_text2 == generate_modernization_diff
        fs2 == IF retry THEN Put(fs1, AttemptPath(sid, "2"), diff_text2) ELSE fs1
        diff_text == IF retry /\ ValidDiff(diff_text2) THEN diff_text2 ELSE diff_text1
    IN IF ValidDiff(diff_text)
       THEN [st EXCEPT !.fs = fs2, !.changed_any = TRUE]   \* never taken: both attempts are ''
       ELSE [st EXCEPT !.fs = fs2,
                       !.log = @ \cup {[msg |-> "no_valid_diff", step |-> k,
                                        paths |-> <<RelativeTo(tgt, WorkPath)>>]}]

RECURSIVE AiTargets(_, _, _, _)
AiTargets(st, k, sid, tgts) ==
    IF tgts = <<>> THEN st
    ELSE AiTargets(AiTarget(st, k, sid, tgts[1]), k, sid, Tail(tgts))

\* The deterministic dispatch on the step id (lines 350-502); go_modules and the ids
\* without a branch change nothing.
Fallback(st, k, sid) ==
    CASE sid = "python_print_function" -> _fix_python_print_statements(st, k)
      [] sid = "add_type_hints" -> _add_basic_type_hints(st, k)
      [] sid = "update_dependencies" -> update_dependencies(st, k)
      [] sid = "es6_syntax" -> es6_syntax(st, k)
      [] sid = "java_modernize" -> java_modernize(st, k)
      [] OTHER -> st

\* Faulty variant of SecondPassStep: a step that was given to the model is never
\* handed to the dispatch on the step id, whether or not the model changed a file.
SecondPassStepModelOnly(st, k, step, ai_available) ==
    LET targets == Targets(st.fs, step)
        missing(t) == ~Exists(st.fs, Join(ServicePath, t))
        non_existent == SelectSeq(targets, missing)
        st0 == [st EXCEPT !.changed_any = FALSE]
        st_ai == IF ai_available
                 THEN AiTargets(st0, k, step.id, NormTargets(st.fs, targets))
                 ELSE st0
        note(dropped, changed, dispatched) ==
            [step |-> k, id |-> step.id, ai_available |-> ai_available, dropped |-> dropped,
             changed_any |-> changed, dispatched |-> dispatched]
    IN IF ai_available /\ targets # <<>> /\ non_existent # <<>>
       THEN [st EXCEPT !.log = @ \cup {[msg |-> "drop_step", step |-> k,
                                        paths |-> non_existent]},
                       !.second = Append(@, note(TRUE, FALSE, FALSE))]
       ELSE IF ai_available
       THEN [st_ai EXCEPT !.second = Append(@, note(FALSE, st_ai.changed_any, FALSE))]
       ELSE [Fallback(st_ai, k, step.id) EXCEPT !.second = Append(@, note(FALSE, FALSE, TRUE))]

\* One step of the second loop; ai_available is the answer of is_available() for it.
\* What was done with the step is noted in `second`: whether it was dropped (line 247),
\* whether the model path set changed_any (line 342), and whether the dispatch on the
\* step id (line 350) was reached.
SecondPassStep(st, k, step, ai_available) ==
    LET targets == Targets(st.fs, step)
        missing(t) == ~Exists(st.fs, Join(ServicePath, t))
        non_existent == SelectSeq(targets, missing)
        st0 == [st EXCEPT !.changed_any = FALSE]
        st_ai == IF ai_available
                 THEN AiTargets(st0, k, step.id, NormTargets(st.fs, targets))
                 ELSE st0
        note(dropped, changed, dispatched) ==
            [step |-> k, id |-> step.id, ai_available |-> ai_available, dropped |-> dropped,
             changed_any |-> changed, dispatched |-> dispatched]
    IN IF ai_available /\ targets # <<>> /\ non_existent # <<>>
       THEN [st EXCEPT !.log = @ \cup {[msg |-> "drop_step", step |-> k,
                                        paths |-> non_existent]},
                       !.second = Append(@, note(TRUE, FALSE, FALSE))]
       ELSE IF st_ai.changed_any
       THEN [st_ai EXCEPT !.second = Append(@, note(FALSE, TRUE, FALSE))]
       ELSE [Fallback(st_ai, k, step.id) EXCEPT !.second = Append(@, note(FALSE, FALSE, TRUE))]

RECURSIVE StepLoop(_, _, _, _)
StepLoop(st, steps, k, avail) ==
    IF k > Len(steps) THEN st
    ELSE StepLoop(SecondPassStep(st, k, steps[k], avail[k]), steps, k + 1, avail)

\* Faulty variant of Dedup: a later record of a file replaces the count of the first.
RECURSIVE DedupKeepLast(_, _)
DedupKeepLast(records, final) ==
    IF records = <<>> THEN final
    ELSE LET c == records[1]
             seen == \E i \in 1..Len(final) : final[i].file = c.file
             first == CHOOSE i \in 1..Len(final) : final[i].file = c.file
         IN DedupKeepLast(Tail(records),
                  IF seen
                  THEN [final EXCEPT ![first].lines_changed = c.lines_changed]
                  ELSE Append(final, [file |-> c.file, type |-> c.type,
                                      lines_changed |-> c.lines_changed]))

\* The deduplication of lines 504-517: the first record of each file, in order, with
\* the largest lines_changed of the file's records.
RECURSIVE Dedup(_, _)
Dedup(records, final) ==
    IF records = <<>> THEN final
    ELSE LET c == records[1]
             seen == \E i \in 1..Len(final) : final[i].file = c.file
             first == CHOOSE i \in 1..Len(final) : final[i].file = c.file
             larger(a, b) == IF a >= b THEN a ELSE b
         IN Dedup(Tail(records),
                  IF seen
                  THEN [final EXCEPT ![first].lines_changed = larger(@, c.lines_changed)]
                  ELSE Append(final, [file |-> c.file, type |-> c.type,
                                      lines_changed |-> c.lines_changed]))

\* _apply_changes_to_temp(work_path, plan) on file system f, where avail[k] is what
\* is_available() answers while step k is handled.
PipelineResult(st1, st2) ==
    [fs |-> st2.fs, raw |-> st2.raw, log |-> st2.log, patched |-> st1.fs,
     second |-> st2.second, changes |-> Dedup(st2.raw, <<>>)]

\* The second loop and the deduplication after the first loop left st1.
AfterPatches(st1, steps, avail) == PipelineResult(st1, StepLoop(st1, steps, 1, avail))

_apply_changes_to_temp(f, steps, avail) ==
    AfterPatches(PatchLoop([fs |-> f, raw |-> <<>>, log |-> {}, second |-> <<>>,
                            changed_any |-> FALSE], steps, 1),
                 steps, avail)

(***************************************************************************)
(* _auto_fix_whitespace (lines 760-787).                                   *)
(***************************************************************************)
IsTopLevelDef(line) ==
    StartsWith(line, DEF_) \/ StartsWith(line, <<"a", "s", "y", "n", "c", " ">> \o DEF_)

\* The number of blank lines at the end of `out`.
RECURSIVE TrailingBlank(_)
TrailingBlank(out) ==
    IF out # <<>> /\ Strip(out[Len(out)]) = <<>>
    THEN 1 + TrailingBlank(SubSeq(out, 1, Len(out) - 1))
    ELSE 0

\* The lines after the loop of lines 768-782: before each top-level def that has fewer
\* than two blank lines in front, empty lines are inserted ahead of those blank lines.
RECURSIVE FixBlankLines(_, _)
FixBlankLines(out, lines) ==
    IF lines = <<>> THEN out
    ELSE LET blank_count == TrailingBlank(out)
             insert_at == Len(out) - blank_count
             padded ==
                 IF IsTopLevelDef(lines[1]) /\ blank_count < 2
                 THEN SubSeq(out, 1, insert_at)
                      \o [i \in 1..(2 - blank_count) |-> <<>>]
                      \o SubSeq(out, insert_at + 1, Len(out))
                 ELSE out
         IN FixBlankLines(Append(padded, lines[1]), Tail(lines))

FixWhitespaceText(text) ==
    LET lines == SplitLines(text)
        fixed == FixBlankLines(<<>>, lines)
    IN IF fixed = lines THEN text ELSE JoinNL(fixed) \o <<NL>>

RECURSIVE FixWhitespaceFiles(_, _)
FixWhitespaceFiles(f, files) ==
    IF files = <<>> THEN f
    ELSE FixWhitespaceFiles(Put(f, WorkPath \o files[1], FixWhitespaceText(f[WorkPath \o files[1]])),
                            Tail(files))

_auto_fix_whitespace(f) == FixWhitespaceFiles(f, RGlob(f, py))

(***************************************************************************)
(* _run_validators (lines 673-758).                                        *)
(***************************************************************************)
\* A line without its comment: what stands before the first '#'.
CodeOf(line) ==
    LET i == Find(line, <<"#">>, 1)
    IN IF i = 0 THEN line ELSE SubSeq(line, 1, i - 1)

\* compile(src, ...) of the texts of the model: a line whose code is an old-style print
\* statement (print followed by something that is not a parenthesised expression),
\* has an unclosed parenthesis, or is the token '?' is a syntax error.
Compiles(text) ==
    LET lines == SplitLines(text)
        open(l) == Cardinality({j \in 1..Len(l) : l[j] = "("})
        close(l) == Cardinality({j \in 1..Len(l) : l[j] = ")"})
    IN \A i \in 1..Len(lines) :
           /\ ~IsOldPrint(CodeOf(lines[i]))
           /\ open(CodeOf(lines[i])) = close(CodeOf(lines[i]))
           /\ Strip(lines[i]) # <<"?">>

\* What the test runner can do: be absent, exit 0, collect no tests, fail, fail to start.
PytestOutcomes == {"absent", "pass", "no_tests", "fail", "error"}
\* What the linter can do: be absent, exit 0, report only E3xx codes, report other
\* codes, fail to start.
Flake8Outcomes == {"absent", "pass", "style_only", "other", "error"}

\* `gate` of a run whose validators are not followed check by check.
\* findings without the model's insights (findings.get('ai_enhanced', False) is False).
NoFindings == [ai_enhanced |-> FALSE, ai_insights |-> <<>>]

NoGate == [pytest |-> "absent", flake8 |-> "absent", success |-> TRUE]

\* Faulty variant of _run_validators: a passing test run overrides the syntax check.
_run_validators_tests_decide(f, pytest, flake8) ==
    LET files == RGlob(f, py)
        syntax_errors == {i \in 1..Len(files) : ~Compiles(f[WorkPath \o files[i]])}
        s1 == syntax_errors = {}
        s2 == IF pytest \in {"fail", "error"} THEN FALSE ELSE IF pytest = "pass" THEN TRUE ELSE s1
        s3 == IF flake8 \in {"other", "error"} THEN FALSE ELSE s2
    IN s3

\* _run_validators (lines 673-758): the syntax check of every *.py file of the working
\* copy, then the test runner, then the linter; each can only turn success to False.
_run_validators(f, pytest, flake8) ==
    LET files == RGlob(f, py)
        syntax_errors == {i \in 1..Len(files) : ~Compiles(f[WorkPath \o files[i]])}
        s1 == syntax_errors = {}
        s2 == IF pytest \in {"fail", "error"} THEN FALSE ELSE s1
        s3 == IF flake8 \in {"other", "error"} THEN FALSE ELSE s2
    IN s3

(***************************************************************************)
(* _apply_changes_to_original (lines 797-875).                             *)
(***************************************************************************)
gitignore == <<".", "gitignore">>

commit_deny_dirs(f) ==
    BaselineDeny \cup IgnoreEntries(f, ServicePath \o <<gitignore>>)
                 \cup IgnoreEntries(f, ServicePath \o <<modxignore>>)

allowed_exts ==
    { py, <<".", "j", "s">>, <<".", "t", "s">>, <<".", "j", "a", "v", "a">>, <<".", "g", "o">>,
      <<".", "j", "s", "o", "n">>, <<".", "t", "o", "m", "l">>, <<".", "m", "d">>,
      <<".", "i", "n", "i">>, <<".", "c", "f", "g">>, <<".", "y", "m", "l">>,
      <<".", "y", "a", "m", "l">>, <<".", "x", "m", "l">> }

BuildFileNames ==
    { <<"d", "o", "c", "k", "e", "r", "f", "i", "l", "e">>,
      <<"m", "a", "k", "e", "f", "i", "l", "e">> }

AllowedName(name) == Suffix(name) \in allowed_exts \/ LowerStr(name) \in BuildFileNames

\* dst.resolve().parent is the original root or lies below it (line 842).
InsideService(dst) ==
    LET parent == SubSeq(Resolve(dst), 1, Len(Resolve(dst)) - 1)
    IN StartsWith(parent, Resolve(ServicePath))

\* Faulty variant of BackupPath: with_suffix('.modx_backup'), which replaces the suffix.
BackupPathReplacingSuffix(dst) ==
    SubSeq(dst, 1, Len(dst) - 1) \o <<WithSuffix(dst[Len(dst)], modx_backup)>>

\* backup_path = dst.with_suffix(dst.suffix + '.modx_backup')
BackupPath(dst) ==
    LET name == dst[Len(dst)]
    IN SubSeq(dst, 1, Len(dst) - 1) \o <<WithSuffix(name, Suffix(name) \o modx_backup)>>

\* Faulty variant of CommitFile: the deny-set is not consulted.
CommitFileIgnoringDeny(st, deny, rel_path) ==
    LET src == WorkPath \o rel_path
        dst == ServicePath \o rel_path
        f == st.fs
    IN IF ~AllowedName(rel_path[Len(rel_path)]) THEN st
       ELSE IF ~InsideService(dst) THEN st
       ELSE IF dst \in DOMAIN f /\ f[src] = f[dst] THEN st
       ELSE LET backed == IF dst \in DOMAIN f THEN Put(f, BackupPath(dst), f[dst]) ELSE f
            IN [fs |-> Put(backed, dst, f[src]),
                applied |-> Append(st.applied, [file |-> rel_path, action |-> "modified",
                                                backup |-> BackupPath(dst)])]

\* One file of the walk (lines 830-873); st is [fs, applied].
CommitFile(st, deny, rel_path) ==
    LET src == WorkPath \o rel_path
        dst == ServicePath \o rel_path
        f == st.fs
    IN IF \E i \in 1..Len(rel_path) : rel_path[i] \in deny THEN st
       ELSE IF ~AllowedName(rel_path[Len(rel_path)]) THEN st
       ELSE IF ~InsideService(dst) THEN st
       ELSE IF dst \in DOMAIN f /\ f[src] = f[dst] THEN st
       ELSE LET backed == IF dst \in DOMAIN f THEN Put(f, BackupPath(dst), f[dst]) ELSE f
            IN [fs |-> Put(backed, dst, f[src]),
                applied |-> Append(st.applied, [file |-> rel_path, action |-> "modified",
                                                backup |-> BackupPath(dst)])]

RECURSIVE CommitFiles(_, _, _)
CommitFiles(st, deny, files) ==
    IF files = <<>> THEN st
    ELSE CommitFiles(CommitFile(st, deny, files[1]), deny, Tail(files))

\* os.walk(work_path): every file of the working copy, in walk order.
WalkFiles(f) ==
    LET hit(rel) == (WorkPath \o rel) \in DOMAIN f
    IN SelectSeq(WalkOrder, hit)

_apply_changes_to_original(f) ==
    CommitFiles([fs |-> f, applied |-> <<>>], commit_deny_dirs(f), WalkFiles(f))

(***************************************************************************)
(* CodeMigrator.migrate (lines 26-96) and the CLI command around it        *)
(* (src/modx/cli.py, lines 89-100), as the steps of one run.               *)
(***************************************************************************)
\* What the operator may type at the prompt.
Answers ==
    { <<"y">>, <<"y", "e", "s">>, <<" ", "Y", "E", "S", NL>>, <<"Y">>,
      <<"n">>, <<>>, <<"y", "e", "s", "!">> }

\* Faulty variant of Approves: any answer that begins with 'y' approves.
ApprovesLeadingY(answer) == StartsWith(Strip(LowerStr(answer)), <<"y">>)

\* response in ['y', 'yes'] after .lower().strip()
Approves(answer) == Strip(LowerStr(answer)) \in {<<"y">>, <<"y", "e", "s">>}

\* shutil.copytree(self.service_path, self.temp_dir / "service")
CopyTree(f) ==
    LET rels == Tree(f, ServicePath)
    IN [q \in DOMAIN f \cup {WorkPath \o r : r \in rels} |->
            IF q \in DOMAIN f THEN f[q] ELSE f[ServicePath \o RelativeTo(q, WorkPath)]]

\* shutil.rmtree(d)
RmTree(f, d) == [q \in {x \in DOMAIN f : ~StartsWith(x, d)} |-> f[q]]

Init ==
    /\ fs \in Trees
    /\ interactive \in BOOLEAN
    /\ apply \in BOOLEAN
    /\ use_ai \in BOOLEAN
    /\ plan \in Plans
    /\ pc = "start"
    /\ temp_dir = 0
    /\ changes = <<>>
    /\ raw = <<>>
    /\ log = {}
    /\ result = "none"
    /\ prompted = FALSE
    /\ response = None
    /\ validated = "none"
    /\ sizeChecked = FALSE
    /\ approved = FALSE
    /\ committed = FALSE
    /\ applied = <<>>
    /\ fsStart = fs
    /\ fsCopied = fs
    /\ fsPatched = fs
    /\ fsPre = fs
    /\ run = 1
    /\ backend = "none"
    /\ second = <<>>
    /\ history = <<>>
    /\ transform_func = [c \in {} |-> c]
    /\ model = NoAnswers
    /\ gate = NoGate
    /\ findings = NoFindings

Return(value) == pc' = "returned" /\ result' = value

\* Faulty variant of Begin: a planner whose backend is down hands out its plan all
\* the same, and the run goes on.
BeginBackendOptional ==
    /\ pc = "start"
    /\ \E backend_up \in BOOLEAN :
        /\ backend' = (IF ~use_ai THEN "none" ELSE IF backend_up THEN "up" ELSE "down")
        /\ IF plan = <<>>
           THEN /\ Return("True")
                /\ UNCHANGED <<fs, temp_dir, fsCopied>>
           ELSE /\ fs' = CopyTree(fs)
                /\ fsCopied' = fs'
                /\ temp_dir' = run
                /\ pc' = "patch"
                /\ UNCHANGED result
    /\ UNCHANGED <<interactive, apply, use_ai, plan, changes, raw, log, prompted, response,
                   validated, sizeChecked, approved, committed, applied, fsStart, fsPatched, fsPre>>
    /\ UNCHANGED <<run, second, history, transform_func, model, gate, findings>>

\* Lines 28-39: the plan; the backend that a planner with use_ai needs may be down
\* (planner.plan raises); an empty plan returns True; otherwise the working copy is made.
Begin ==
    /\ pc = "start"
    /\ \E backend_up \in BOOLEAN :
        /\ backend' = (IF ~use_ai THEN "none" ELSE IF backend_up THEN "up" ELSE "down")
        /\ IF use_ai /\ ~backend_up
           THEN /\ pc' = "raised"
                /\ UNCHANGED <<fs, temp_dir, result, fsCopied>>
           ELSE IF plan = <<>>
           THEN /\ Return("True")
                /\ UNCHANGED <<fs, temp_dir, fsCopied>>
           ELSE /\ fs' = CopyTree(fs)
                /\ fsCopied' = fs'
                /\ temp_dir' = run
                /\ pc' = "patch"
                /\ UNCHANGED result
    /\ UNCHANGED <<interactive, apply, use_ai, plan, changes, raw, log, prompted, response,
                   validated, sizeChecked, approved, committed, applied, fsStart, fsPatched, fsPre>>
    /\ UNCHANGED <<run, second, history, transform_func, model, gate, findings>>

\* What migrate does with the outcome `out` of the pipeline (lines 41-47).
AfterPipeline(out) ==
    /\ fs' = out.fs
    /\ fsPatched' = out.patched
    /\ changes' = out.changes
    /\ raw' = out.raw
    /\ log' = out.log
    /\ second' = out.second
    /\ IF out.changes = <<>>
       THEN Return("False")
       ELSE pc' = "validate" /\ UNCHANGED result

\* Lines 41-47: the patch pipeline; no changes returns False.
ApplyChangesToTemp ==
    /\ pc = "patch"
    /\ \E avail \in [1..Len(plan) -> (IF use_ai THEN BOOLEAN ELSE {FALSE})] :
          AfterPipeline(_apply_changes_to_temp(fs, plan, avail))
    /\ UNCHANGED <<interactive, apply, use_ai, plan, temp_dir, prompted, response, validated,
                   sizeChecked, approved, committed, applied, fsStart, fsCopied, fsPre>>
    /\ UNCHANGED <<run, backend, history, transform_func, model, gate, findings>>

\* Lines 49-56: the whitespace fixer, then the validators; a failure returns False.
Validate ==
    /\ pc = "validate"
    /\ fs' = _auto_fix_whitespace(fs)
    /\ \E pytest \in PytestOutcomes, flake8 \in Flake8Outcomes :
        IF _run_validators(fs', pytest, flake8)
        THEN validated' = "pass" /\ pc' = "size" /\ UNCHANGED result
        ELSE validated' = "fail" /\ Return("False")
    /\ UNCHANGED <<interactive, apply, use_ai, plan, temp_dir, changes, raw, log, prompted,
                   response, sizeChecked, approved, committed, applied, fsStart, fsCopied,
                   fsPatched, fsPre>>
    /\ UNCHANGED <<run, backend, second, history, transform_func, model, gate, findings>>

\* Faulty variant of OverLimit: the limit itself is refused.
OverLimitInclusive(step) == step.estimated_loc >= SizeLimit

\* step.get('estimated_loc', 0) > 500 (line 59)
OverLimit(step) == step.estimated_loc > SizeLimit

\* Lines 58-62: a step over the limit returns False.
SizeGate ==
    /\ pc = "size"
    /\ IF \E k \in 1..Len(plan) : OverLimit(plan[k])
       THEN Return("False") /\ UNCHANGED sizeChecked
       ELSE sizeChecked' = TRUE /\ pc' = "approval" /\ UNCHANGED result
    /\ UNCHANGED <<fs, interactive, apply, use_ai, plan, temp_dir, changes, raw, log, prompted,
                   response, validated, approved, committed, applied, fsStart, fsCopied, fsPatched,
                   fsPre>>
    /\ UNCHANGED <<run, backend, second, history, transform_func, model, gate, findings>>

\* Faulty variant of Approval: the apply flag answers for the operator.
ApprovalApplySkipsPrompt ==
    /\ pc = "approval"
    /\ IF interactive /\ ~apply
       THEN /\ prompted' = TRUE
            /\ \E answer \in Answers :
                /\ response' = Strip(LowerStr(answer))
                /\ IF Approves(answer)
                   THEN approved' = TRUE /\ pc' = "commit" /\ UNCHANGED result
                   ELSE approved' = FALSE /\ Return("False")
       ELSE /\ UNCHANGED <<prompted, response>>
            /\ IF apply
               THEN approved' = TRUE /\ pc' = "commit" /\ UNCHANGED result
               ELSE approved' = FALSE /\ Return("True")
    /\ UNCHANGED <<fs, interactive, apply, use_ai, plan, temp_dir, changes, raw, log,
                   validated, sizeChecked, committed, applied, fsStart, fsCopied, fsPatched,
                   fsPre>>
    /\ UNCHANGED <<run, backend, second, history, transform_func, model, gate, findings>>

\* Lines 64-88: the prompt of an interactive run, or the apply flag.
Approval ==
    /\ pc = "approval"
    /\ IF interactive
       THEN /\ prompted' = TRUE
            /\ \E answer \in Answers :
                /\ response' = Strip(LowerStr(answer))
                /\ IF Approves(answer)
                   THEN approved' = TRUE /\ pc' = "commit" /\ UNCHANGED result
                   ELSE approved' = FALSE /\ Return("False")
       ELSE /\ UNCHANGED <<prompted, response>>
            /\ IF apply
               THEN approved' = TRUE /\ pc' = "commit" /\ UNCHANGED result
               ELSE approved' = FALSE /\ Return("True")
    /\ UNCHANGED <<fs, interactive, apply, use_ai, plan, temp_dir, changes, raw, log,
                   validated, sizeChecked, committed, applied, fsStart, fsCopied, fsPatched,
                   fsPre>>
    /\ UNCHANGED <<run, backend, second, history, transform_func, model, gate, findings>>

\* Lines 89-93: the commit.
Commit ==
    /\ pc = "commit"
    /\ approved
    /\ LET out == _apply_changes_to_original(fs)
       IN fs' = out.fs /\ applied' = out.applied
    /\ fsPre' = fs
    /\ committed' = TRUE
    /\ Return("True")
    /\ UNCHANGED <<interactive, apply, use_ai, plan, temp_dir, changes, raw, log, prompted,
                   response, validated, sizeChecked, approved, fsStart, fsCopied, fsPatched>>
    /\ UNCHANGED <<run, backend, second, history, transform_func, model, gate, findings>>

\* cli.py, lines 99-100: migrator.cleanup() in the finally clause; cleanup (lines
\* 900-902) removes the directory self.temp_dir names, when it is set and exists.
Cleanup ==
    /\ pc \in {"returned", "raised"}
    /\ fs' = (IF temp_dir # 0 THEN RmTree(fs, TempDirOf(temp_dir)) ELSE fs)
    /\ pc' = "done"
    /\ UNCHANGED <<interactive, apply, use_ai, plan, temp_dir, changes, raw, log, result,
                   prompted, response, validated, sizeChecked, approved, committed, applied,
                   fsStart, fsCopied, fsPatched, fsPre>>
    /\ UNCHANGED <<run, backend, second, history, transform_func, model, gate, findings>>

Next ==
    \/ Begin
    \/ ApplyChangesToTemp
    \/ Validate
    \/ SizeGate
    \/ Approval
    \/ Commit
    \/ Cleanup

Spec == Init /\ [][Next]_vars

\* Every file of the working copy is one the walk order of the model lists.
WalkOrderComplete ==
    \A r \in Tree(fs, WorkPath) : \E i \in 1..Len(WalkOrder) : WalkOrder[i] = r

(***************************************************************************)
(* The safe transformer of the language migrators                          *)
(* (src/modx/core/migrators/utils.py) and the loop of JSMigrator that      *)
(* uses it (src/modx/core/migrators/js_migrator.py, lines 29-40).          *)
(***************************************************************************)
has_marker(text) == Contains(text, <<MODX_DETERMINISTIC_FALLBACK>>)

MARKER_TAIL == ": aggressive modernization applied"

\* insert_marker (utils.py, lines 36-49).
insert_marker(text, lang) ==
    IF has_marker(text) THEN text
    ELSE IF lang = "py"
    THEN LET lines == SplitLines(text)
             line == <<"# ", MODX_DETERMINISTIC_FALLBACK, MARKER_TAIL>>
             at == IF lines # <<>> /\ StartsWith(lines[1], <<"#", "!">>) THEN 1 ELSE 0
         IN JoinNL(SubSeq(lines, 1, at) \o <<line>> \o SubSeq(lines, at + 1, Len(lines)))
            \o <<NL>>
    ELSE IF lang \in {"js", "ts", "go"}
    THEN <<"// ", MODX_DETERMINISTIC_FALLBACK, MARKER_TAIL, NL>> \o text
    ELSE text

\* validate_syntax (utils.py, lines 123-139): only Python text is parsed.
validate_syntax(language, content) == language = "python" => Compiles(content)

lang_code(language) ==
    CASE language = "python" -> "py"
      [] language = "javascript" -> "js"
      [] language = "typescript" -> "ts"
      [] language = "go" -> "go"
      [] OTHER -> "js"

\* Faulty variant of apply_safe_transformation: a text that carries the marker is
\* transformed again.
apply_safe_transformation_again(language, original_content, transformed) ==
    IF transformed = original_content THEN None
    ELSE IF ~validate_syntax(language, transformed) THEN None
    ELSE insert_marker(transformed, lang_code(language))

\* apply_safe_transformation (utils.py, lines 141-158); `transformed` is what
\* transform_func(original_content) returns.
apply_safe_transformation(language, original_content, transformed) ==
    IF Contains(original_content, <<MODX_DETERMINISTIC_FALLBACK>>) THEN None
    ELSE IF transformed = original_content THEN None
    ELSE IF ~validate_syntax(language, transformed) THEN None
    ELSE insert_marker(transformed, lang_code(language))

\* JSMigrator._modernize_es6 over the listed files; transformed[text] is what
\* _transform_js_content returns for the text.
RECURSIVE ModernizeEs6Files(_, _, _, _)
ModernizeEs6Files(st, k, files, transformed) ==
    IF files = <<>> THEN st
    ELSE LET jf == WorkPath \o files[1]
             old == st.fs[jf]
             new == apply_safe_transformation("javascript", old, transformed[old])
             next ==
                 IF new # None /\ new # <<>>
                 THEN [st EXCEPT
                         !.fs = Put(@, jf, new),
                         !.raw = Append(@, record_change(k, jf, "es6_syntax", old, new))]
                 ELSE st
         IN ModernizeEs6Files(next, k, Tail(files), transformed)

_modernize_es6(st, k, transformed) ==
    ModernizeEs6Files(st, k, RGlob(st.fs, js) \o RGlob(st.fs, <<".", "t", "s">>), transformed)

(***************************************************************************)
(* The transformers on their own: the dispatch on a step id, and the loop  *)
(* of JSMigrator, applied once and then once more to a working copy that   *)
(* holds one file.  The file's text is put together from a few pieces of   *)
(* its language.                                                           *)
(***************************************************************************)
MaxPieces == 2     \* most pieces a text is put together from

RECURSIVE Cat(_)
Cat(q) == IF q = <<>> THEN <<>> ELSE q[1] \o Cat(Tail(q))

TextsOf(pieces) == {Cat(q) : q \in SeqsUpTo(pieces, MaxPieces)}

PyPieces ==
    { PRINT_ \o <<"x", NL>>,
      PRINT_ \o <<"x">>,
      DEF_ \o <<"f", "(", ")", ":", NL>>,
      <<" ">> \o RETURN_ \o <<"x", NL>>,
      <<"# ", MODX_DETERMINISTIC_FALLBACK, NL>> }

ReqPieces ==
    { <<"a">> \o EQEQ \o <<"0", ".", "1", NL>>,
      <<" ", "b">> \o EQEQ \o <<"0", ".", "2">>,
      <<"c">> \o EQEQ \o <<"1", ".", "0", NL>>,
      <<"#", " ", MODX_DETERMINISTIC_FALLBACK, NL>> }

JsPieces ==
    { VAR_ \o <<"x", NL>>,
      <<" ">> \o VAR_ \o <<"y">>,
      LET_ \o <<"z", NL>>,
      <<"// ", MODX_DETERMINISTIC_FALLBACK, NL>> }

PomPieces ==
    { <<"<java.version>", "1", ".", "8", "</java.version>", NL>>,
      <<"<maven.compiler.source>", " ", "8", "</maven.compiler.source>">>,
      <<"<maven.compiler.target>", "1", "1", "</maven.compiler.target>", NL>>,
      <<"<parent>", "<groupId>", "org.springframework.boot", "</groupId>", NL,
        "<artifactId>", "spring-boot-starter-parent", "</artifactId>",
        "<version>", "2", ".", "7", "</version>", "</parent>", NL>>,
      <<"<!-- ", MODX_DETERMINISTIC_FALLBACK, " -->", NL>> }

GradlePieces ==
    { <<"sourceCompatibility", " ", "=", " ", "1", ".", "8", NL>>,
      <<"targetCompatibility", "=", JV_1_8, NL>>,
      <<"x", "=", JV_1_8>>,
      <<"// ", MODX_DETERMINISTIC_FALLBACK, NL>> }

JavaPieces ==
    { <<"import", " ", "javax.", "x", ";", NL>>,
      <<"javax.", "y", ";">>,
      <<"import", " ", "jakarta.", "z", ";", NL>>,
      <<"/* ", MODX_DETERMINISTIC_FALLBACK, " */", NL>> }

GoPieces ==
    { <<"go", " ", "1", ".", "1", "8", NL>>,
      <<"// ", MODX_DETERMINISTIC_FALLBACK, NL>> }

JsTexts == TextsOf(JsPieces)


\* package.json: an object with the sections dependencies and devDependencies, each
\* entry a package name and a version string.
Q == "\""

V_caret0 == <<"^", "0", ".", "1", ".", "0">>
V_tilde0 == <<"~", "0", ".", "2">>
V_caret1 == <<"^", "1", ".", "2", ".", "0">>
V_plain0 == <<"0", ".", "1">>
V_bumped == <<"^", "1", ".", "0", ".", "0">>

VersionStrings == {V_caret0, V_tilde0, V_caret1, V_plain0}

RECURSIVE JsonEntries(_, _)
JsonEntries(vers, i) ==
    IF i > Len(vers) THEN <<>>
    ELSE <<Q, "p", Digits[i], Q, ":", " ", Q>> \o vers[i] \o <<Q>>
         \o (IF i < Len(vers) THEN <<",">> ELSE <<>>) \o JsonEntries(vers, i + 1)

PkgJsonText(deps, dev) ==
    <<"{", Q, "dependencies", Q, ":", " ", "{">> \o JsonEntries(deps, 1) \o <<"}", ",", NL>>
    \o <<Q, "devDependencies", Q, ":", " ", "{">> \o JsonEntries(dev, 1) \o <<"}", "}", NL>>

PkgTexts ==
    {PkgJsonText(d, v) : d \in SeqsUpTo(VersionStrings, MaxPieces),
                         v \in {w \in SeqsUpTo(VersionStrings, MaxPieces) : Len(w) <= 1}}

\* The one file of a tree: its name and its text.
FilesT ==
    ({a_py} \X TextsOf(PyPieces)) \cup ({requirements_txt} \X TextsOf(ReqPieces))
    \cup ({app_js} \X JsTexts) \cup ({pom_xml} \X TextsOf(PomPieces))
    \cup ({build_gradle} \X TextsOf(GradlePieces)) \cup ({A_java} \X TextsOf(JavaPieces))
    \cup ({go_mod} \X TextsOf(GoPieces)) \cup ({package_json} \X PkgTexts)

\* The step ids the planner emits for the deterministic path.
TransformerIds ==
    { "python_print_function", "add_type_hints", "update_dependencies", "es6_syntax",
      "update_js_deps", "java_modernize", "go_modules" }

InitT ==
    /\ run = 1
    /\ temp_dir = 1
    /\ \E e \in FilesT : fsStart = FsOf({<<ServicePath \o <<e[1]>>, e[2]>>})
    /\ fs = CopyTree(fsStart)
    /\ fsCopied = fs
    /\ fsPatched = fs
    /\ fsPre = fs
    /\ interactive = FALSE
    /\ apply = TRUE
    /\ use_ai = FALSE
    /\ plan \in {<<Step(id, <<>>, 5, <<>>)>> : id \in TransformerIds}
    /\ pc \in (IF plan[1].id = "es6_syntax" THEN {"t0", "s0"} ELSE {"t0"})
    /\ changes = <<>>
    /\ raw = <<>>
    /\ log = {}
    /\ result = "none"
    /\ prompted = FALSE
    /\ response = None
    /\ validated = "none"
    /\ sizeChecked = FALSE
    /\ approved = FALSE
    /\ committed = FALSE
    /\ applied = <<>>
    /\ backend = "none"
    /\ second = <<>>
    /\ history = <<>>
    /\ transform_func = [c \in {} |-> c]
    /\ model = NoAnswers
    /\ gate = NoGate
    /\ findings = NoFindings

\* The dispatch of lines 350-502 for the step of the plan, on the working copy as
\* it stands: at t0 for the first time, at t1 once more.
DispatchFallback ==
    /\ pc \in {"t0", "t1"}
    /\ LET st == [fs |-> fs, raw |-> raw, log |-> log, second |-> second,
                  changed_any |-> FALSE]
           out == Fallback(st, 1, plan[1].id)
       IN fs' = out.fs /\ raw' = out.raw
    /\ pc' = (IF pc = "t0" THEN "t1" ELSE "t2")
    /\ UNCHANGED <<interactive, apply, use_ai, plan, temp_dir, changes, log, result, prompted,
                   response, validated, sizeChecked, approved, committed, applied, fsStart,
                   fsCopied, fsPatched, fsPre, run, backend, second, history, transform_func,
                   model, gate, findings>>

\* JSMigrator._modernize_es6 on the working copy as it stands: at s0 for the first
\* time, at s1 once more.  _transform_js_content is taken to be any function of the
\* text: it returns any text for a text it is given for the first time, and what it
\* returned before for a text it was given before.
ModernizeEs6 ==
    /\ pc \in {"s0", "s1"}
    /\ LET files == RGlob(fs, js) \o RGlob(fs, <<".", "t", "s">>)
           given == {fs[WorkPath \o files[i]] : i \in 1..Len(files)}
       IN \E transformed \in [given -> JsTexts] :
            /\ \A c \in given \cap DOMAIN transform_func : transformed[c] = transform_func[c]
            /\ transform_func' = [c \in given \cup DOMAIN transform_func |->
                                     IF c \in given THEN transformed[c] ELSE transform_func[c]]
            /\ LET st == [fs |-> fs, raw |-> raw, log |-> log, second |-> second,
                          changed_any |-> FALSE]
                   out == _modernize_es6(st, 1, transformed)
               IN fs' = out.fs /\ raw' = out.raw
    /\ pc' = (IF pc = "s0" THEN "s1" ELSE "s2")
    /\ UNCHANGED <<interactive, apply, use_ai, plan, temp_dir, changes, log, result, prompted,
                   response, validated, sizeChecked, approved, committed, applied, fsStart,
                   fsCopied, fsPatched, fsPre, run, backend, second, history, model, gate, findings>>

NextT ==
    \/ DispatchFallback
    \/ ModernizeEs6

SpecT == InitT /\ [][NextT]_vars

(***************************************************************************)
(* The analyzer and the rule-based planner (src/modx/core/analyzer.py,     *)
(* src/modx/core/planner.py) over the original tree.                       *)
(***************************************************************************)
pyproject_toml == <<"pyproject", ".", "t", "o", "m", "l">>
setup_py == <<"setup">> \o py
go_sum == <<"go", ".", "s", "u", "m">>
PRINT_FUTURE == <<"from __future__ import print_function">>

\* self.root_path.rglob('*' + suffix), in walk order.
RGlobRoot(f, suffix) ==
    LET hit(rel) == (ServicePath \o rel) \in DOMAIN f /\ EndsWith(rel[Len(rel)], suffix)
    IN SelectSeq(WalkOrder, hit)

FirstN(q, n) == SubSeq(q, 1, IF Len(q) < n THEN Len(q) ELSE n)

\* _detect_languages (analyzer.py, lines 39-54): the first five files of each language
\* that has files.
_detect_languages(f) ==
    [ python |-> FirstN(RGlobRoot(f, py) \o RGlobRoot(f, py \o <<"w">>), 5),
      javascript |-> FirstN(RGlobRoot(f, js) \o RGlobRoot(f, js \o <<"x">>), 5),
      typescript |-> FirstN(RGlobRoot(f, <<".", "t", "s">>) \o RGlobRoot(f, <<".", "t", "s", "x">>), 5),
      java |-> FirstN(RGlobRoot(f, java), 5),
      golang |-> FirstN(RGlobRoot(f, <<".", "g", "o">>), 5) ]

\* The keys of _detect_frameworks (analyzer.py, lines 56-91).
_detect_frameworks(f) ==
    LET has(name) == Exists(f, ServicePath \o <<name>>)
    IN (IF has(requirements_txt) \/ has(pyproject_toml) \/ has(setup_py) THEN {"python"} ELSE {})
       \cup (IF has(package_json) THEN {"javascript"} ELSE {})
       \cup (IF has(pom_xml) \/ has(build_gradle) THEN {"java"} ELSE {})
       \cup (IF has(go_mod) THEN {"golang"} ELSE {})

\* The files of the python2_print issues of _detect_outdated_issues (analyzer.py,
\* lines 96-109): of the first ten *.py files, those that hold "print " and not the
\* __future__ import.
Python2PrintFiles(f) ==
    LET issue(rel) == /\ Contains(f[ServicePath \o rel], PRINT_)
                      /\ ~Contains(f[ServicePath \o rel], PRINT_FUTURE)
    IN SelectSeq(FirstN(RGlobRoot(f, py), 10), issue)

\* _python_steps (planner.py, lines 75-107).
_python_steps(f) ==
    LET py2_issues == Python2PrintFiles(f)
    IN (IF py2_issues # <<>>
        THEN <<Step("python_print_function", py2_issues, Len(py2_issues) * 5, <<>>)>>
        ELSE <<>>)
       \o (IF "python" \in _detect_frameworks(f)
           THEN <<Step("update_dependencies", <<<<requirements_txt>>, <<pyproject_toml>>>>, 10, <<>>)>>
           ELSE <<>>)
       \o <<Step("add_type_hints", FirstN(_detect_languages(f).python, 5), 50, <<>>)>>

\* _javascript_steps (planner.py, lines 109-129).
_javascript_steps(f) ==
    <<Step("es6_syntax", FirstN(_detect_languages(f).javascript, 5), 100, <<>>)>>
    \o (IF "javascript" \in _detect_frameworks(f)
        THEN <<Step("update_js_deps", <<<<package_json>>>>, 5, <<>>)>>
        ELSE <<>>)

\* _java_steps (planner.py, lines 131-141).
_java_steps(f) == <<Step("java_modernize", FirstN(_detect_languages(f).java, 5), 150, <<>>)>>

\* _golang_steps (planner.py, lines 143-153).
_golang_steps(f) == <<Step("go_modules", <<<<go_mod>>, <<go_sum>>>>, 10, <<>>)>>

\* _generate_steps (planner.py, lines 60-73), without the steps of the model.
_generate_steps(f) ==
    LET languages == _detect_languages(f)
    IN (IF languages.python # <<>> THEN _python_steps(f) ELSE <<>>)
       \o (IF languages.javascript # <<>> \/ languages.typescript # <<>>
           THEN _javascript_steps(f) ELSE <<>>)
       \o (IF languages.java # <<>> THEN _java_steps(f) ELSE <<>>)
       \o (IF languages.golang # <<>> THEN _golang_steps(f) ELSE <<>>)

(***************************************************************************)
(* Calls of migrate, one after the other, on one migrator whose planner    *)
(* is the one the CLI command and the tests put in place:                  *)
(* ModernizationPlanner(service, use_ai=...).                              *)
(***************************************************************************)
MaxRuns == 2       \* most calls of migrate on the migrator

T_hint == DEF_ \o <<"f", "(", ")", ":", NL, " ", "x", NL>>      \* a def without annotation
T_future == PRINT_FUTURE \o <<NL>> \o T_print
T_pin == <<"a">> \o EQEQ \o <<"0", ".", "1", NL>>
T_var == VAR_ \o <<"x", NL>>
T_pom == <<"<java.version>", "1", ".", "8", "</java.version>", NL>>
T_javax == <<"import", " ", "javax.", "x", ";", NL>>
T_gomod == <<"go", " ", "1", ".", "1", "8", NL>>
\* print (x) #   -- a call with a comment: it compiles, and it is an old-style line
\* for the print fix, since it starts with 'print ' and does not end with ')'.
T_paren == PRINT_ \o <<"(", "x", ")", " ", "#", NL>>

TreesR ==
    { FsOf(CoreFiles(T_print)),
      FsOf(CoreFiles(T_print) \cup ExtraFiles),
      FsOf(CoreFiles(T_ok)),
      FsOf(CoreFiles(T_bad)),
      FsOf(CoreFiles(T_future)),
      FsOf({<<ServicePath \o <<a_py>>, T_hint>>, <<ServicePath \o <<b_py>>, T_print>>,
            <<ServicePath \o <<requirements_txt>>, T_pin>>}),
      FsOf({<<ServicePath \o <<app_js>>, T_var>>,
            <<ServicePath \o <<package_json>>, PkgJsonText(<<V_caret0>>, <<>>)>>}),
      FsOf({<<ServicePath \o <<pom_xml>>, T_pom>>, <<ServicePath \o <<A_java>>, T_javax>>,
            <<ServicePath \o <<go_mod>>, T_gomod>>}),
      FsOf({<<ServicePath \o <<a_py>>, PRINT_FUTURE \o <<NL>> \o T_paren>>,
            <<ServicePath \o <<b_py>>, T_hint>>}),
      FsOf({<<ServicePath \o <<f_py(i)>>, IF i = 1 THEN T_hint ELSE T_ok>> : i \in 1..Len(FileDigits)}
           \cup {<<ServicePath \o <<a_py>>, T_paren>>}) }

\* The plans a planner with the model returns: steps of the model, or the steps of
\* the rules when the model names none that can be acted on.
AiPlans ==
    { <<Step("ai_fix", <<<<a_py>>>>, 5, << <<<<a_py>>, T_new>> >>)>>,
      <<Step("python_print_function", <<<<a_py>>, <<missing_py>>>>, 5, <<>>)>> }

\* What planner.plan() returns for the tree (planner.py, lines 16-58), if it returns.
PlanChoices(f, ai) == IF ai THEN AiPlans \cup {_generate_steps(f)} ELSE {_generate_steps(f)}

InitR ==
    /\ fs \in TreesR
    /\ interactive \in BOOLEAN
    /\ apply \in BOOLEAN
    /\ use_ai \in BOOLEAN
    /\ plan \in PlanChoices(fs, use_ai)
    /\ pc = "start"
    /\ temp_dir = 0
    /\ changes = <<>>
    /\ raw = <<>>
    /\ log = {}
    /\ result = "none"
    /\ prompted = FALSE
    /\ response = None
    /\ validated = "none"
    /\ sizeChecked = FALSE
    /\ approved = FALSE
    /\ committed = FALSE
    /\ applied = <<>>
    /\ fsStart = fs
    /\ fsCopied = fs
    /\ fsPatched = fs
    /\ fsPre = fs
    /\ run = 1
    /\ backend = "none"
    /\ second = <<>>
    /\ history = <<>>
    /\ transform_func = [c \in {} |-> c]
    /\ model = NoAnswers
    /\ gate = NoGate
    /\ findings = NoFindings

\* migrate is called once more, with the same arguments, on the migrator after it
\* returned or raised; cleanup was not called in between, so self.temp_dir still names
\* the last directory made.
Again ==
    /\ pc \in {"returned", "raised"}
    /\ run < MaxRuns
    /\ history' = Append(history, [result |-> result, raised |-> pc = "raised",
                                   committed |-> committed, temp_dir |-> temp_dir])
    /\ run' = run + 1
    /\ plan' \in PlanChoices(fs, use_ai)
    /\ pc' = "start"
    /\ changes' = <<>>
    /\ raw' = <<>>
    /\ log' = {}
    /\ result' = "none"
    /\ prompted' = FALSE
    /\ response' = None
    /\ validated' = "none"
    /\ sizeChecked' = FALSE
    /\ approved' = FALSE
    /\ committed' = FALSE
    /\ applied' = <<>>
    /\ fsStart' = fs
    /\ fsCopied' = fs
    /\ fsPatched' = fs
    /\ fsPre' = fs
    /\ backend' = "none"
    /\ second' = <<>>
    /\ UNCHANGED <<fs, interactive, apply, use_ai, temp_dir, transform_func, model, gate, findings>>

NextR ==
    \/ Begin
    \/ ApplyChangesToTemp
    \/ Validate
    \/ SizeGate
    \/ Approval
    \/ Commit
    \/ Cleanup
    \/ Again

SpecRuns == InitR /\ [][NextR]_vars

(***************************************************************************)
(* The model path of the second loop (lines 249-347) for the texts that    *)
(* the two requests of a target return, and `git apply` over whole-file    *)
(* hunks.                                                                  *)
(***************************************************************************)
\* What a request of lines 264 and 279 returns.  AIModernizer.generate_modernization_diff
\* (ai.py 320) takes no `minimal`: the call raises TypeError and the handler sets ''.
\* A method with the signature of OllamaClient.generate_modernization_diff (ai.py 139)
\* takes the call and returns the text the backend holds for it.
\* The backend answers by the file it is asked about: mod.other for b.py, and for any
\* other file mod.first to the full request and mod.second to the minimal one.
Held(mod, tgt, minimal) ==
    IF RelativeTo(tgt, WorkPath) = <<b_py>> THEN mod.other
    ELSE IF minimal THEN mod.second ELSE mod.first

Request(mod, tgt, minimal) ==
    IF ~mod.accepts_minimal THEN generate_modernization_diff ELSE Held(mod, tgt, minimal)

\* The test of line 277: the first answer is asked for again.
Retry(diff_text) ==
    \/ diff_text = <<>>
    \/ Strip(diff_text) = NO_DIFF_AVAILABLE
    \/ ~StartsWith(LStrip(diff_text), <<"-", "-", "-">>)

\* Path(s) of a string: the parts between the slashes.
RECURSIVE SplitSlash(_, _)
SplitSlash(s, cur) ==
    IF s = <<>> THEN (IF cur = <<>> THEN <<>> ELSE <<cur>>)
    ELSE IF s[1] = "/" THEN (IF cur = <<>> THEN <<>> ELSE <<cur>>) \o SplitSlash(Tail(s), <<>>)
    ELSE SplitSlash(Tail(s), Append(cur, s[1]))

PathOf(s) == IF StartsWith(s, <<"/">>) THEN <<Root>> \o SplitSlash(s, <<>>) ELSE SplitSlash(s, <<>>)

MinusHead == <<"-", "-", "-", " ">>
PlusHead == <<"+", "+", "+", " ">>
DevNull == <<"/", "d", "e", "v", "/", "n", "u", "l", "l">>

\* changed_files of lines 313-319: the names on the '+++ ' lines, without a leading 'b/'.
changed_files(diff_text) ==
    LET head(l) == StartsWith(l, PlusHead)
        plus == SelectSeq(SplitLines(diff_text), head)
        name(l) == LET p == Strip(SubSeq(l, 5, Len(l)))
                   IN IF StartsWith(p, <<"b", "/">>) THEN SubSeq(p, 3, Len(p)) ELSE p
    IN [i \in 1..Len(plus) |-> name(plus[i])]

\* The file sections of a unified diff as git reads them: a '--- ' line and a '+++ '
\* line open a section, '@@' opens its hunk, and the lines after it are the old image
\* ('-' and ' ' lines) and the new image ('+' and ' ' lines).
RECURSIVE Sections(_, _)
Sections(lines, acc) ==
    IF lines = <<>> THEN acc
    ELSE IF Len(lines) >= 2 /\ StartsWith(lines[1], MinusHead) /\ StartsWith(lines[2], PlusHead)
    THEN Sections(SubSeq(lines, 3, Len(lines)),
                  Append(acc, [old |-> Strip(SubSeq(lines[1], 5, Len(lines[1]))),
                               new |-> Strip(SubSeq(lines[2], 5, Len(lines[2]))),
                               hunk |-> FALSE, minus |-> <<>>, plus |-> <<>>]))
    ELSE IF acc = <<>> THEN Sections(Tail(lines), acc)
    ELSE LET l == lines[1]
             n == Len(acc)
             body == Tail(l)
         IN Sections(Tail(lines),
                IF StartsWith(l, <<"@@">>) THEN [acc EXCEPT ![n].hunk = TRUE]
                ELSE IF ~acc[n].hunk \/ l = <<>> THEN acc
                ELSE IF l[1] = "-" THEN [acc EXCEPT ![n].minus = Append(@, body)]
                ELSE IF l[1] = "+" THEN [acc EXCEPT ![n].plus = Append(@, body)]
                ELSE IF l[1] = " " THEN [acc EXCEPT ![n].minus = Append(@, body),
                                                    ![n].plus = Append(@, body)]
                ELSE acc)

\* The name git gives a file of the diff: -p1 takes the first component away.
StripP1(name) ==
    LET parts == SplitSlash(name, <<>>)
    IN IF Len(parts) < 2 THEN <<>> ELSE Tail(parts)

\* `git apply --directory work_path --check` (line 299) accepts the diff: every section
\* has a hunk and names a file inside the working copy; a section from /dev/null makes a
\* file that is not there, any other replaces a file whose lines are the old image.
SectionApplies(f, sec) ==
    LET rel == StripP1(sec.new)
        p == Join(WorkPath, rel)
    IN /\ sec.hunk
       /\ rel # <<>>
       /\ DotDot \notin {rel[i] : i \in 1..Len(rel)}
       /\ IF sec.old = DevNull THEN ~Exists(f, p) /\ sec.minus = <<>>
          ELSE IsFile(f, p) /\ SplitLines(f[Resolve(p)]) = sec.minus

GitApplyCheck(f, diff_text) ==
    LET secs == Sections(SplitLines(diff_text), <<>>)
    IN /\ secs # <<>>
       /\ \A i \in 1..Len(secs) : SectionApplies(f, secs[i])

\* text of a list of lines, each ended by a newline
RECURSIVE Unlines(_)
Unlines(lines) == IF lines = <<>> THEN <<>> ELSE lines[1] \o <<NL>> \o Unlines(Tail(lines))

\* `git apply --directory work_path` (line 307) of a diff that passed the check.
RECURSIVE GitApplySections(_, _)
GitApplySections(f, secs) ==
    IF secs = <<>> THEN f
    ELSE GitApplySections(Put(f, Join(WorkPath, StripP1(secs[1].new)), Unlines(secs[1].plus)),
                          Tail(secs))

GitApply(f, diff_text) == GitApplySections(f, Sections(SplitLines(diff_text), <<>>))

\* Lines 327-341: a Change for every name of changed_files.
RECURSIVE RecordChanged(_, _, _, _)
RecordChanged(st, k, sid, names) ==
    IF names = <<>> THEN st
    ELSE LET tgt_path == Join(WorkPath, PathOf(names[1]))
             orig_path == Join(ServicePath, PathOf(names[1]))
             new == IF IsFile(st.fs, tgt_path) THEN st.fs[Resolve(tgt_path)] ELSE <<>>
             orig == IF IsFile(st.fs, orig_path) THEN st.fs[Resolve(orig_path)] ELSE <<>>
         IN RecordChanged([st EXCEPT !.raw = Append(@, record_change(k, tgt_path, "ai_" \o sid,
                                                                     orig, new))],
                          k, sid, Tail(names))

\* The note of a request: which call of which target of which step, and what it returned.
RequestNote(k, tgt, n, answer) ==
    [step |-> k, target |-> RelativeTo(tgt, WorkPath), request |-> n, answer |-> answer]

\* Lines 298-345 for the diff that line 294 let through; st.fs holds the audit files.
\* mod.git tells how the tool answers: "ok" when it runs, "absent" when starting it
\* raises FileNotFoundError, "error" when starting it raises another OSError.
ApplyDiff(st, k, sid, tgt, diff_text, mod) ==
    LET rel == RelativeTo(tgt, WorkPath)
        say(msg, paths) == [st EXCEPT !.log = @ \cup {[msg |-> msg, step |-> k, paths |-> paths]}]
        names == changed_files(diff_text)
        real(name) == Exists(st.fs, Join(ServicePath, PathOf(name)))
        real_affected == SelectSeq(names, real)
    IN IF mod.git = "absent" THEN say("git_missing", <<rel>>)
       ELSE IF mod.git = "error" THEN [st EXCEPT !.raised = TRUE]
       ELSE IF ~GitApplyCheck(st.fs, diff_text) THEN say("check_failed", <<rel>>)
       ELSE IF real_affected = <<>>
       THEN [say("drop_step", names) EXCEPT !.fs = GitApply(st.fs, diff_text)]
       ELSE [RecordChanged([st EXCEPT !.fs = GitApply(st.fs, diff_text)], k, sid, names)
                EXCEPT !.changed_any = TRUE]

\* One target of the model path (lines 251-345).
ModelTarget(st, k, sid, tgt, mod) ==
    LET diff_text1 == Request(mod, tgt, FALSE)
        diff_text2 == Request(mod, tgt, TRUE)
        retry == Retry(diff_text1)
        diff_text == IF retry /\ ValidDiff(diff_text2) THEN diff_text2 ELSE diff_text1
        st1 == [st EXCEPT !.fs = Put(@, AttemptPath(sid, "1"), diff_text1),
                          !.second = Append(@, RequestNote(k, tgt, 1, diff_text1))]
        st2 == IF retry
               THEN [st1 EXCEPT !.fs = Put(@, AttemptPath(sid, "2"), diff_text2),
                                !.second = Append(@, RequestNote(k, tgt, 2, diff_text2))]
               ELSE st1
    IN IF ~ValidDiff(diff_text)
       THEN [st2 EXCEPT !.log = @ \cup {[msg |-> "no_valid_diff", step |-> k,
                                         paths |-> <<RelativeTo(tgt, WorkPath)>>]}]
       ELSE ApplyDiff(st2, k, sid, tgt, diff_text, mod)

\* The loop of line 251; an exception that no handler takes ends it.
RECURSIVE ModelTargets(_, _, _, _, _)
ModelTargets(st, k, sid, tgts, mod) ==
    IF tgts = <<>> \/ st.raised THEN st
    ELSE ModelTargets(ModelTarget(st, k, sid, tgts[1], mod), k, sid, Tail(tgts), mod)

\* The note of a step in `second`.
StepNote(k, step, ai_available, dropped, changed, dispatched) ==
    [step |-> k, id |-> step.id, ai_available |-> ai_available, dropped |-> dropped,
     changed_any |-> changed, dispatched |-> dispatched]

\* Lines 249-502 for a step that was not dropped: the model path, then the dispatch
\* on the step id unless a diff was applied and recorded.
AfterModelPath(st_ai, k, step) ==
    IF st_ai.raised THEN st_ai
    ELSE IF st_ai.changed_any
    THEN [st_ai EXCEPT !.second = Append(@, StepNote(k, step, TRUE, FALSE, TRUE, FALSE))]
    ELSE [Fallback(st_ai, k, step.id)
             EXCEPT !.second = Append(@, StepNote(k, step, TRUE, FALSE, FALSE, TRUE))]

\* One step of the second loop with the model available (lines 203-502).
ModelStep(st, k, step, mod) ==
    LET targets == Targets(st.fs, step)
        missing(t) == ~Exists(st.fs, Join(ServicePath, t))
        non_existent == SelectSeq(targets, missing)
    IN IF targets # <<>> /\ non_existent # <<>>
       THEN [st EXCEPT !.log = @ \cup {[msg |-> "drop_step", step |-> k,
                                        paths |-> non_existent]},
                       !.second = Append(@, StepNote(k, step, TRUE, TRUE, FALSE, FALSE))]
       ELSE AfterModelPath(ModelTargets([st EXCEPT !.changed_any = FALSE], k, step.id,
                                        NormTargets(st.fs, targets), mod),
                           k, step)

(***************************************************************************)
(* SpecAi: the second loop over a plan with the model available, one step  *)
(* at a time, for every pair of texts the backend may hold.                *)
(***************************************************************************)
\* A file section with one hunk that replaces the whole file.
RECURSIVE Prefixed(_, _)
Prefixed(c, lines) ==
    IF lines = <<>> THEN <<>> ELSE <<c>> \o lines[1] \o <<NL>> \o Prefixed(c, Tail(lines))

DiffSection(old, new, minus, plus) ==
    MinusHead \o old \o <<NL>> \o PlusHead \o new \o <<NL>> \o <<"@@", NL>>
        \o Prefixed("-", minus) \o Prefixed("+", plus)

A_(name) == <<"a", "/">> \o name
B_(name) == <<"b", "/">> \o name

PRINT_CALL == <<"p", "r", "i", "n", "t", "(", "x", ")">>

D_fix == DiffSection(A_(a_py), B_(a_py), <<PRINT_ \o <<"x">>>>, <<PRINT_CALL>>)
D_new == DiffSection(DevNull, B_(new_py), <<>>, <<<<"y">>>>)
D_mixed == D_fix \o D_new
D_stale == DiffSection(A_(a_py), B_(a_py), <<<<"z">>>>, <<PRINT_CALL>>)
D_no_plus == MinusHead \o A_(a_py) \o <<NL, "@@", NL>> \o Prefixed("-", <<PRINT_ \o <<"x">>>>)
D_prose == <<"n", "o", NL>>
D_sentinel == <<" ">> \o NO_DIFF_AVAILABLE \o <<NL>>

\* The texts the backend may hold for a request.
DiffTexts == {<<>>, D_sentinel, D_prose, D_no_plus, D_stale, D_fix, D_new, D_mixed}

\* The texts the backend may hold for a request about b.py.
OtherTexts == {<<>>, D_prose}

GitOutcomes == {"ok", "absent", "error"}

AiTree ==
    FsOf({ <<ServicePath \o <<a_py>>, T_print>>, <<ServicePath \o <<b_py>>, T_hint>> })

AiSteps ==
    { Step("python_print_function", <<<<a_py>>>>, 5, <<>>),
      Step("python_print_function", <<<<b_py>>, <<a_py>>>>, 5, <<>>),
      Step("add_type_hints", <<<<b_py>>>>, 5, <<>>) }

InitAi ==
    /\ run = 1
    /\ temp_dir = 1
    /\ fsStart = AiTree
    /\ fs = CopyTree(fsStart)
    /\ fsCopied = fs
    /\ fsPatched = fs
    /\ fsPre = fs
    /\ interactive = FALSE
    /\ apply = TRUE
    /\ use_ai = TRUE
    /\ plan \in SeqsUpTo(AiSteps, MaxSteps) \ {<<>>}
    /\ pc = "model"
    /\ changes = <<>>
    /\ raw = <<>>
    /\ log = {}
    /\ result = "none"
    /\ prompted = FALSE
    /\ response = None
    /\ validated = "none"
    /\ sizeChecked = FALSE
    /\ approved = FALSE
    /\ committed = FALSE
    /\ applied = <<>>
    /\ backend = "up"
    /\ second = <<>>
    /\ history = <<>>
    /\ transform_func = [c \in {} |-> c]
    /\ model \in [accepts_minimal : BOOLEAN, first : DiffTexts, second : DiffTexts,
                  other : OtherTexts, git : GitOutcomes]
    /\ gate = NoGate
    /\ findings = NoFindings

\* The steps of the plan the loop is done with.
IsStepNote(i) == "dispatched" \in DOMAIN second[i]
StepsDone == Cardinality({i \in 1..Len(second) : IsStepNote(i)})

AfterModelStep(out) ==
    /\ fs' = out.fs
    /\ raw' = out.raw
    /\ log' = out.log
    /\ second' = out.second
    /\ pc' = (IF out.raised THEN "raised" ELSE "model")

\* The next step of the plan goes through lines 203-502.
ModelPathStep ==
    /\ pc = "model"
    /\ StepsDone < Len(plan)
    /\ AfterModelStep(ModelStep([fs |-> fs, raw |-> raw, log |-> log, second |-> second,
                                 changed_any |-> FALSE, raised |-> FALSE],
                                StepsDone + 1, plan[StepsDone + 1], model))
    /\ UNCHANGED <<interactive, apply, use_ai, plan, temp_dir, changes, result, prompted,
                   response, validated, sizeChecked, approved, committed, applied, fsStart,
                   fsCopied, fsPatched, fsPre, run, backend, history, transform_func, model, gate, findings>>

\* Lines 504-517: the loop is over and the records are deduplicated.
ModelPathReturn ==
    /\ pc = "model"
    /\ StepsDone = Len(plan)
    /\ changes' = Dedup(raw, <<>>)
    /\ pc' = "returned"
    /\ UNCHANGED <<fs, interactive, apply, use_ai, plan, temp_dir, raw, log, result, prompted,
                   response, validated, sizeChecked, approved, committed, applied, fsStart,
                   fsCopied, fsPatched, fsPre, run, backend, second, history, transform_func,
                   model, gate, findings>>

NextAi ==
    \/ ModelPathStep
    \/ ModelPathReturn

SpecAi == InitAi /\ [][NextAi]_vars

(***************************************************************************)
(* SpecGate: _run_validators (lines 673-758) check by check, over the      *)
(* working copies of the trees and every outcome of the two tools.         *)
(***************************************************************************)
IsPython(rel) == Suffix(rel[Len(rel)]) = py

\* Lines 677-689: the *.py files of the working copy that compile() rejects.
SyntaxErrors(f) ==
    {rel \in Tree(f, WorkPath) : IsPython(rel) /\ ~Compiles(f[WorkPath \o rel])}

\* Lines 691-713: a test run fails the gate when the runner exits non-zero without
\* saying that no tests were collected, or when running it raises.
TestsFail(pytest) == pytest \in {"fail", "error"}

\* Faulty variant of LintFails: style-only findings fail the gate too.
LintFailsOnStyle(flake8) == flake8 \in {"style_only", "other", "error"}

\* Lines 715-751: a lint run fails the gate when the linter exits non-zero with a code
\* that is not E3xx or with no code at all, or when running it raises.
LintFails(flake8) == flake8 \in {"other", "error"}

InitGate ==
    /\ run = 1
    /\ temp_dir = 1
    /\ fsStart \in Trees
    /\ fs = CopyTree(fsStart)
    /\ fsCopied = fs
    /\ fsPatched = fs
    /\ fsPre = fs
    /\ interactive = FALSE
    /\ apply = TRUE
    /\ use_ai = FALSE
    /\ plan = <<>>
    /\ pc = "syntax"
    /\ changes = <<>>
    /\ raw = <<>>
    /\ log = {}
    /\ result = "none"
    /\ prompted = FALSE
    /\ response = None
    /\ validated = "none"
    /\ sizeChecked = FALSE
    /\ approved = FALSE
    /\ committed = FALSE
    /\ applied = <<>>
    /\ backend = "none"
    /\ second = <<>>
    /\ history = <<>>
    /\ transform_func = [c \in {} |-> c]
    /\ model = NoAnswers
    /\ gate \in [pytest : PytestOutcomes, flake8 : Flake8Outcomes, success : {TRUE}]
    /\ findings = NoFindings

GateFrame ==
    UNCHANGED <<fs, interactive, apply, use_ai, plan, temp_dir, changes, raw, log, result,
                prompted, response, sizeChecked, approved, committed, applied, fsStart,
                fsCopied, fsPatched, fsPre, run, backend, second, history, transform_func,
                model, findings>>

\* Lines 675-689: success starts True; a syntax error sets it to False.
CheckSyntax ==
    /\ pc = "syntax"
    /\ gate' = [gate EXCEPT !.success = (SyntaxErrors(fs) = {})]
    /\ pc' = "tests"
    /\ UNCHANGED validated
    /\ GateFrame

\* Lines 691-713.
RunTests ==
    /\ pc = "tests"
    /\ gate' = [gate EXCEPT !.success = IF TestsFail(gate.pytest) THEN FALSE ELSE @]
    /\ pc' = "lint"
    /\ UNCHANGED validated
    /\ GateFrame

\* Lines 715-758: the linter, then `return bool(success)`.
RunLinter ==
    /\ pc = "lint"
    /\ gate' = [gate EXCEPT !.success = IF LintFails(gate.flake8) THEN FALSE ELSE @]
    /\ validated' = (IF gate'.success THEN "pass" ELSE "fail")
    /\ pc' = "gate_done"
    /\ GateFrame

NextGate ==
    \/ CheckSyntax
    \/ RunTests
    \/ RunLinter

SpecGate == InitGate /\ [][NextGate]_vars

(***************************************************************************)
(* SpecIgnore: the deny-set of the pipeline (lines 112-123) for the texts  *)
(* of an ignore file, and the explicit-patch loop under it.                *)
(***************************************************************************)
IgnorePieces ==
    { gen \o <<"/", NL>>,
      gen \o <<NL>>,
      <<" ">> \o gen \o <<"/", " ", NL>>,
      <<"#">> \o gen \o <<"/", NL>>,
      <<"#", " ", "x", NL>>,
      <<NL>>,
      build \o <<NL>>,
      gen }

IgnoreTexts == TextsOf(IgnorePieces)

\* An original tree with a file in the directory gen and an ignore file holding t.
IgnoreTree(t) ==
    FsOf(CoreFiles(T_ok) \cup { <<ServicePath \o <<gen, a_py>>, T_ok>>,
                                <<ServicePath \o <<modxignore>>, t>> })

GenPatch == <<Step("ai_fix", <<>>, 5, << <<<<gen, a_py>>, T_new>> >>)>>

InitIgnore ==
    /\ run = 1
    /\ temp_dir = 1
    /\ \E t \in IgnoreTexts : fsStart = IgnoreTree(t)
    /\ fs = CopyTree(fsStart)
    /\ fsCopied = fs
    /\ fsPatched = fs
    /\ fsPre = fs
    /\ interactive = FALSE
    /\ apply = TRUE
    /\ use_ai = FALSE
    /\ plan = GenPatch
    /\ pc = "patch"
    /\ changes = <<>>
    /\ raw = <<>>
    /\ log = {}
    /\ result = "none"
    /\ prompted = FALSE
    /\ response = None
    /\ validated = "none"
    /\ sizeChecked = FALSE
    /\ approved = FALSE
    /\ committed = FALSE
    /\ applied = <<>>
    /\ backend = "none"
    /\ second = <<>>
    /\ history = <<>>
    /\ transform_func = [c \in {} |-> c]
    /\ model = NoAnswers
    /\ gate = NoGate
    /\ findings = NoFindings

AfterPatchLoop(out) ==
    /\ fs' = out.fs
    /\ fsPatched' = out.fs
    /\ raw' = out.raw
    /\ log' = out.log

\* Lines 111-201: the deny-set is built and the patch entries of the plan are written.
ExplicitPatches ==
    /\ pc = "patch"
    /\ AfterPatchLoop(PatchLoop([fs |-> fs, raw |-> raw, log |-> log, second |-> second,
                                 changed_any |-> FALSE], plan, 1))
    /\ pc' = "patched"
    /\ UNCHANGED <<interactive, apply, use_ai, plan, temp_dir, changes, result, prompted,
                   response, validated, sizeChecked, approved, committed, applied, fsStart,
                   fsCopied, fsPre, run, backend, second, history, transform_func, model,
                   gate, findings>>

NextIgnore == ExplicitPatches

SpecIgnore == InitIgnore /\ [][NextIgnore]_vars

(***************************************************************************)
(* SpecChange: record_change (lines 132-148) for a patch entry that        *)
(* replaces the content of a.py, over old and new contents that share a    *)
(* head and differ in the lines after it.                                  *)
(***************************************************************************)
OldLines == { <<"y", NL>>, <<"-", "-", "y", NL>>, <<"-", "y", NL>> }
NewLines == { <<"z", NL>>, <<"+", "+", "z", NL>>, <<"@@", "z", NL>> }
Heads == { <<>>, <<"x", NL>> }

OldTexts == {h \o Cat(q) : h \in Heads, q \in SeqsUpTo(OldLines, MaxPieces)}
NewTexts == {h \o Cat(q) : h \in Heads, q \in SeqsUpTo(NewLines, MaxPieces)}

InitChange ==
    /\ run = 1
    /\ temp_dir = 1
    /\ \E t \in OldTexts : fsStart = FsOf(CoreFiles(t))
    /\ fs = CopyTree(fsStart)
    /\ fsCopied = fs
    /\ fsPatched = fs
    /\ fsPre = fs
    /\ interactive = FALSE
    /\ apply = TRUE
    /\ use_ai = FALSE
    /\ \E t \in NewTexts : plan = <<Step("ai_fix", <<>>, 5, << <<<<a_py>>, t>> >>)>>
    /\ pc = "patch"
    /\ changes = <<>>
    /\ raw = <<>>
    /\ log = {}
    /\ result = "none"
    /\ prompted = FALSE
    /\ response = None
    /\ validated = "none"
    /\ sizeChecked = FALSE
    /\ approved = FALSE
    /\ committed = FALSE
    /\ applied = <<>>
    /\ backend = "none"
    /\ second = <<>>
    /\ history = <<>>
    /\ transform_func = [c \in {} |-> c]
    /\ model = NoAnswers
    /\ gate = NoGate
    /\ findings = NoFindings

NextChange == ExplicitPatches

SpecChange == InitChange /\ [][NextChange]_vars

(***************************************************************************)
(* SpecSteps: AIModernizer.generate_ai_modernization_steps                 *)
(* (ai/ai_modernizer.py, lines 49-102) over the insights of the findings.  *)
(***************************************************************************)
MaxEst == 1600
ChunkSize == 500

DecimalDigits == <<"0", "1", "2", "3", "4", "5", "6", "7", "8", "9">>

\* f"{idx}" for idx >= 0.
RECURSIVE Decimal(_)
Decimal(n) ==
    IF n < 10 THEN <<DecimalDigits[n + 1]>>
    ELSE Decimal(n \div 10) \o <<DecimalDigits[(n % 10) + 1]>>

\* title[:40].lower().replace(' ', '_')
Slug(title) == ReplaceAll(LowerStr(FirstN(title, 40)), <<" ">>, <<"_">>)

\* max(a, b)
Max(a, b) == IF a >= b THEN a ELSE b

AI_ == <<"a", "i", "_">>
AI_SUGGESTED_FILE == <<<<"AI-suggested-file.py">>>>

\* Lines 71-76: the estimate of an insight. An estimate that is absent and one that is
\* 0 are both false in the test of line 71 and are both written 0 here.
Estimate(insight) ==
    IF insight.estimated_loc # 0 THEN insight.estimated_loc
    ELSE IF insight.code_example # <<>> THEN Len(SplitLines(insight.code_example))
    ELSE 50

\* Lines 62-69: the files of the insight and the patch that gives each of them the
\* code example.
InsightFiles(insight) == IF insight.files = <<>> THEN <<AI_SUGGESTED_FILE>> ELSE insight.files

InsightPatch(insight) ==
    IF insight.code_example = <<>> THEN <<>>
    ELSE [i \in 1..Len(InsightFiles(insight)) |->
            <<InsightFiles(insight)[i], insight.code_example>>]

\* A step of lines 81-101; `insight` is the position of the insight it was made from
\* (not a key of the step in the code).
AiStep(id, insight, est, k) ==
    [id |-> id, files_affected |-> InsightFiles(insight), estimated_loc |-> est,
     patch |-> InsightPatch(insight), ai_generated |-> TRUE, insight |-> k]

\* Faulty variant of InsightSteps: the number of chunks is rounded down.
InsightStepsRoundedDown(insight, k) ==
    IF insight.type \notin {"suggestion", "issue"} THEN <<>>
    ELSE IF Estimate(insight) > ChunkSize
         THEN [idx \in 1..(Estimate(insight) \div ChunkSize) |->
                 AiStep(AI_ \o Decimal(idx - 1) \o <<"_">> \o Slug(insight.description), insight,
                        Max(1, Estimate(insight) \div (Estimate(insight) \div ChunkSize)), k)]
         ELSE <<AiStep(AI_ \o Slug(insight.description), insight, Estimate(insight), k)>>

\* Lines 57-101: the steps made from one insight.
InsightSteps(insight, k) ==
    IF insight.type \notin {"suggestion", "issue"} THEN <<>>
    ELSE IF Estimate(insight) > ChunkSize
         THEN [idx \in 1..((Estimate(insight) + (ChunkSize - 1)) \div ChunkSize) |->
                 AiStep(AI_ \o Decimal(idx - 1) \o <<"_">> \o Slug(insight.description), insight,
                        Max(1, Estimate(insight)
                                 \div ((Estimate(insight) + (ChunkSize - 1)) \div ChunkSize)), k)]
         ELSE <<AiStep(AI_ \o Slug(insight.description), insight, Estimate(insight), k)>>

\* Lines 49-103.
generate_ai_modernization_steps(fd) ==
    IF ~fd.ai_enhanced THEN <<>>
    ELSE Cat([k \in 1..Len(fd.ai_insights) |-> InsightSteps(fd.ai_insights[k], k)])

Insight(type, title, est, example) ==
    [type |-> type, description |-> title, estimated_loc |-> est, code_example |-> example,
     files |-> <<>>]

InsightTypes == {"suggestion", "issue", "note"}
Examples == { <<>>, <<"x", NL, "y", NL>> }
Titles == { <<"U", "s", "e", " ", "f">>, <<"t">> }
FewEstimates == {-1, 0, 7, ChunkSize + 1, 2 * ChunkSize + 1}

OneInsight ==
    { <<Insight(ty, <<"U", "s", "e", " ", "f">>, est, ex)>> :
        ty \in InsightTypes, est \in 0..MaxEst, ex \in Examples }

TwoInsights ==
    { <<Insight("suggestion", t1, e1, <<>>), Insight("issue", t2, e2, <<"x", NL>>)>> :
        t1 \in Titles, t2 \in Titles, e1 \in FewEstimates, e2 \in FewEstimates }

InitSteps ==
    /\ run = 1
    /\ temp_dir = 1
    /\ fsStart = FsOf(CoreFiles(<<>>))
    /\ fs = fsStart
    /\ fsCopied = fs
    /\ fsPatched = fs
    /\ fsPre = fs
    /\ interactive = FALSE
    /\ apply = FALSE
    /\ use_ai = TRUE
    /\ plan = <<>>
    /\ pc = "insights"
    /\ changes = <<>>
    /\ raw = <<>>
    /\ log = {}
    /\ result = "none"
    /\ prompted = FALSE
    /\ response = None
    /\ validated = "none"
    /\ sizeChecked = FALSE
    /\ approved = FALSE
    /\ committed = FALSE
    /\ applied = <<>>
    /\ backend = "up"
    /\ second = <<>>
    /\ history = <<>>
    /\ transform_func = [c \in {} |-> c]
    /\ model = NoAnswers
    /\ gate = NoGate
    /\ findings \in [ai_enhanced : BOOLEAN, ai_insights : OneInsight \cup TwoInsights]

GenerateSteps ==
    /\ pc = "insights"
    /\ plan' = generate_ai_modernization_steps(findings)
    /\ pc' = "planned"
    /\ UNCHANGED <<fs, interactive, apply, use_ai, temp_dir, changes, raw, log, result,
                   prompted, response, validated, sizeChecked, approved, committed, applied,
                   fsStart, fsCopied, fsPatched, fsPre, run, backend, second, history,
                   transform_func, model, gate, findings>>

NextSteps == GenerateSteps

SpecSteps == InitSteps /\ [][NextSteps]_vars

(***************************************************************************)
(* SpecFix: _auto_fix_whitespace (lines 760-787) on a working copy whose   *)
(* a.py holds definition lines, other lines and blank lines.               *)
(***************************************************************************)
CLASS_ == <<"c", "l", "a", "s", "s", " ">>

FixPieces ==
    { DEF_ \o <<"f", NL>>,
      <<"a", "s", "y", "n", "c", " ">> \o DEF_ \o <<"g", NL>>,
      CLASS_ \o <<"A", NL>>,
      <<" ">> \o DEF_ \o <<"m", NL>>,
      <<"x", NL>>,
      <<NL>>,
      <<" ", NL>> }

FixTexts == {Cat(q) : q \in SeqsUpTo(FixPieces, MaxPieces + 1)}

InitFix ==
    /\ run = 1
    /\ temp_dir = 1
    /\ \E t \in FixTexts : fsStart = FsOf(CoreFiles(t))
    /\ fs = CopyTree(fsStart)
    /\ fsCopied = fs
    /\ fsPatched = fs
    /\ fsPre = fs
    /\ interactive = FALSE
    /\ apply = FALSE
    /\ use_ai = FALSE
    /\ plan = <<>>
    /\ pc = "autofix"
    /\ changes = <<>>
    /\ raw = <<>>
    /\ log = {}
    /\ result = "none"
    /\ prompted = FALSE
    /\ response = None
    /\ validated = "none"
    /\ sizeChecked = FALSE
    /\ approved = FALSE
    /\ committed = FALSE
    /\ applied = <<>>
    /\ backend = "none"
    /\ second = <<>>
    /\ history = <<>>
    /\ transform_func = [c \in {} |-> c]
    /\ model = NoAnswers
    /\ gate = NoGate
    /\ findings = NoFindings

AutoFixWhitespace ==
    /\ pc = "autofix"
    /\ fs' = _auto_fix_whitespace(fs)
    /\ pc' = "autofixed"
    /\ UNCHANGED <<interactive, apply, use_ai, plan, temp_dir, changes, raw, log, result,
                   prompted, response, validated, sizeChecked, approved, committed, applied,
                   fsStart, fsCopied, fsPatched, fsPre, run, backend, second, history,
                   transform_func, model, gate, findings>>

NextFix == AutoFixWhitespace

SpecFix == InitFix /\ [][NextFix]_vars

(***************************************************************************)
(* SpecJs: the two es6 transformers on a working copy whose app.js holds   *)
(* declarations and assignments: the es6_syntax branch of the dispatch     *)
(* (migrator.py, lines 379-399) and JSMigrator._modernize_es6 with         *)
(* _transform_js_content (js_migrator.py, lines 29-79).                    *)
(***************************************************************************)
VAR3 == <<"v", "a", "r">>
LET3 == <<"l", "e", "t">>
CONST5 == <<"c", "o", "n", "s", "t">>

\* \w of the patterns, over the characters the texts of the model are written with.
WordChars == {"a", "c", "e", "f", "l", "n", "o", "r", "s", "t", "v", "x", "y", "_", "1", "2", "3"}

RECURSIVE SkipWord(_, _)
SkipWord(t, i) == IF i <= Len(t) /\ t[i] \in WordChars THEN SkipWord(t, i + 1) ELSE i

\* Group 1 of re.search(r'var\s+(\w+)\s*=', line) when `initialised`, of
\* re.search(r'var\s+(\w+)', line) otherwise, looked for from position i; <<>> when
\* there is no match.
RECURSIVE DeclaredName(_, _, _)
DeclaredName(line, i, initialised) ==
    IF Find(line, VAR3, i) = 0 THEN <<>>
    ELSE LET p == Find(line, VAR3, i)
             j == SkipSpace(line, p + 3)
             k == SkipWord(line, j)
             m == SkipSpace(line, k)
         IN IF j > p + 3 /\ k > j /\ (initialised => (m <= Len(line) /\ line[m] = "="))
            THEN SubSeq(line, j, k - 1)
            ELSE DeclaredName(line, p + 1, initialised)

\* vars[name] = kind, the keys in the order in which they were first set.
SetKind(vs, name, kind) ==
    IF \E i \in 1..Len(vs) : vs[i][1] = name
    THEN [i \in 1..Len(vs) |-> IF vs[i][1] = name THEN <<name, kind>> ELSE vs[i]]
    ELSE Append(vs, <<name, kind>>)

\* Lines 45-55.
RECURSIVE Declared(_, _)
Declared(lines, vs) ==
    IF lines = <<>> THEN vs
    ELSE Declared(Tail(lines),
                  IF ~Contains(lines[1], VAR_) THEN vs
                  ELSE IF DeclaredName(lines[1], 1, TRUE) # <<>>
                  THEN SetKind(vs, DeclaredName(lines[1], 1, TRUE), CONST5)
                  ELSE IF DeclaredName(lines[1], 1, FALSE) # <<>>
                  THEN SetKind(vs, DeclaredName(lines[1], 1, FALSE), LET3)
                  ELSE vs)

\* re.search(rf'\b{v}\s*=', line)
Assigns(line, v) ==
    \E i \in 1..Len(line) :
        /\ i + Len(v) - 1 <= Len(line)
        /\ SubSeq(line, i, i + Len(v) - 1) = v
        /\ (i = 1 \/ line[i - 1] \notin WordChars)
        /\ SkipSpace(line, i + Len(v)) <= Len(line)
        /\ line[SkipSpace(line, i + Len(v))] = "="

\* Lines 56-60: every line of the text is looked at, the declaring line included.
Reassigned(lines, vs) ==
    [i \in 1..Len(vs) |->
        IF \E l \in 1..Len(lines) : Contains(lines[l], <<"=">>) /\ Assigns(lines[l], vs[i][1])
        THEN <<vs[i][1], LET3>>
        ELSE vs[i]]

\* Lines 62-65: the first variable whose declaration the line holds decides.
RECURSIVE RewriteVarLine(_, _)
RewriteVarLine(line, vs) ==
    IF vs = <<>> THEN line
    ELSE IF Contains(line, VAR_ \o vs[1][1])
    THEN ReplaceAll(line, VAR_ \o vs[1][1], vs[1][2] \o <<" ">> \o vs[1][1])
    ELSE RewriteVarLine(line, Tail(vs))

\* _transform_js_content (lines 42-79).  The texts of the model hold no string
\* literal and no function declaration, which the patterns of lines 74 and 78 need.
_transform_js_content(content) ==
    JoinNL([i \in 1..Len(SplitLines(content)) |->
              RewriteVarLine(SplitLines(content)[i],
                             Reassigned(SplitLines(content), Declared(SplitLines(content), <<>>)))])

JsVarPieces ==
    { VAR_ \o <<"x", " ", "=", " ", "1", NL>>,
      <<" ">> \o VAR_ \o <<"y", "=", "1", NL>>,
      VAR_ \o <<"y", NL>>,
      <<"x", " ", "=", " ", "2", NL>>,
      <<"y", "=", "3", NL>>,
      <<"f", "(", "x", ")", NL>> }

JsVarTexts == {Cat(q) : q \in SeqsUpTo(JsVarPieces, MaxPieces + 1)}

InitJs ==
    /\ run = 1
    /\ temp_dir = 1
    /\ \E t \in JsVarTexts : fsStart = FsOf({<<ServicePath \o <<app_js>>, t>>})
    /\ fs = CopyTree(fsStart)
    /\ fsCopied = fs
    /\ fsPatched = fs
    /\ fsPre = fs
    /\ interactive = FALSE
    /\ apply = TRUE
    /\ use_ai = FALSE
    /\ plan = <<Step("es6_syntax", <<>>, 5, <<>>)>>
    /\ pc = "js"
    /\ changes = <<>>
    /\ raw = <<>>
    /\ log = {}
    /\ result = "none"
    /\ prompted = FALSE
    /\ response = None
    /\ validated = "none"
    /\ sizeChecked = FALSE
    /\ approved = FALSE
    /\ committed = FALSE
    /\ applied = <<>>
    /\ backend = "none"
    /\ second = <<>>
    /\ history = <<>>
    /\ transform_func = [c \in {} |-> c]
    /\ model = NoAnswers
    /\ gate = NoGate
    /\ findings = NoFindings

JsFrame ==
    UNCHANGED <<interactive, apply, use_ai, plan, temp_dir, changes, log, result, prompted,
                response, validated, sizeChecked, approved, committed, applied, fsStart,
                fsCopied, fsPatched, fsPre, run, backend, second, history, transform_func,
                model, gate, findings>>

AfterJs(out) == fs' = out.fs /\ raw' = out.raw

JsState == [fs |-> fs, raw |-> raw, log |-> log, second |-> second, changed_any |-> FALSE]

\* The es6_syntax branch of the dispatch.
Es6Step ==
    /\ pc = "js"
    /\ AfterJs(es6_syntax(JsState, 1))
    /\ pc' = "dispatch_done"
    /\ JsFrame

\* JSMigrator.handle_step('es6_syntax', ...).
MigratorEs6 ==
    /\ pc = "js"
    /\ AfterJs(_modernize_es6(JsState, 1,
                              [c \in {fs[WorkPath \o <<app_js>>]} |-> _transform_js_content(c)]))
    /\ pc' = "migrator_done"
    /\ JsFrame

NextJs ==
    \/ Es6Step
    \/ MigratorEs6

SpecJs == InitJs /\ [][NextJs]_vars

(***************************************************************************)
(* Properties.                                                             *)
(***************************************************************************)
Original(f) == TreeContent(f, ServicePath)
Working(f) == TreeContent(f, WorkPath)

\* A path whose file was created or given another content between f0 and f1.
Written(f0, f1, q) == q \in DOMAIN f1 /\ (q \notin DOMAIN f0 \/ f1[q] # f0[q])

Returned == result # "none"

\* C1: a run of migrate that has returned without reaching the commit leaves the
\* original tree with the same files and the same contents as when it was called.
C1_AbortLeavesOriginal ==
    (Returned /\ ~committed) => Original(fs) = Original(fsStart)

\* A run that changed its working copy and returned without committing.
C1_Witness ==
    /\ pc = "returned" /\ ~committed
    /\ Working(fs) # Original(fs)
    /\ validated = "pass"

\* C2: the original tree is written only by the commit, and the commit is reached only
\* after, in this order, the validators passed, the size loop found no step over 500,
\* and approval was obtained (answer 'y' or 'yes', or a non-interactive run with apply).
C2_CommitOnlyAfterGates ==
    /\ (Original(fs) # Original(fsStart)) => committed
    /\ (committed \/ pc = "commit") => approved
    /\ approved =>
        /\ sizeChecked
        /\ IF interactive
           THEN prompted /\ response \in {<<"y">>, <<"y", "e", "s">>}
           ELSE apply /\ ~prompted
    /\ (prompted \/ pc = "approval") => sizeChecked
    /\ sizeChecked =>
        /\ validated = "pass"
        /\ \A k \in 1..Len(plan) : plan[k].estimated_loc <= 500

\* A committed interactive run that changed the original tree.
C2_Witness ==
    committed /\ interactive /\ Original(fs) # Original(fsStart)

\* C3: with a step of estimated_loc >= 501 the run never reaches the prompt or the
\* commit and does not return success; when every step has estimated_loc <= 500 the
\* size loop lets the run through to the approval.
C3_SizeGate ==
    /\ (\E k \in 1..Len(plan) : plan[k].estimated_loc >= 501) =>
        /\ ~prompted /\ ~committed /\ ~approved
        /\ pc \notin {"approval", "commit"}
        /\ result \in {"none", "False"}
    /\ ((\A k \in 1..Len(plan) : plan[k].estimated_loc <= 500)
            /\ validated = "pass" /\ pc # "size") => sizeChecked

\* A run stopped by the size loop itself: the validators had passed.
C3_Witness ==
    /\ \E k \in 1..Len(plan) : plan[k].estimated_loc = 501
    /\ validated = "pass" /\ result = "False"

\* The backup name the claim speaks of: the original name followed by '.modx_backup'.
NamePlusBackup(dst) ==
    SubSeq(dst, 1, Len(dst) - 1) \o <<dst[Len(dst)] \o <<".", "modx_backup">>>>

\* The files of the original tree that the commit overwrote with the content of the
\* working copy.
Overwritten ==
    {ServicePath \o r : r \in {x \in Tree(fsPre, WorkPath) :
        /\ (ServicePath \o x) \in DOMAIN fsPre
        /\ fs[ServicePath \o x] # fsPre[ServicePath \o x]
        /\ fs[ServicePath \o x] = fsPre[WorkPath \o x]}}

\* C4: after the commit every overwritten file that existed before has, next to it, a
\* file <name>.modx_backup holding the content the file had right before the commit.
C4_BackupInvariant ==
    committed =>
        \A dst \in Overwritten :
            /\ NamePlusBackup(dst) \in DOMAIN fs
            /\ fs[NamePlusBackup(dst)] = fsPre[dst]

\* A commit that overwrote a file and a build file without a suffix.
C4_Witness ==
    /\ committed
    /\ (ServicePath \o <<a_py>>) \in Overwritten
    /\ (ServicePath \o <<Makefile>>) \in Overwritten

ArtifactsDir == Append(TempDir, <<".", "modx_artifacts">>)

\* C5: up to the commit, no file outside the working-copy root is created or modified
\* by the run (the audit files of the model path apart).
C5_PatchContainment ==
    ~committed =>
        \A q \in DOMAIN fs :
            Written(fsStart, fs, q) => IsUnder(q, WorkPath) \/ IsUnder(q, ArtifactsDir)

\* The content rules under which the commit may write the file rel of the original tree.
MayCommit(rel) ==
    /\ (WorkPath \o rel) \in DOMAIN fsPre
    /\ AllowedName(rel[Len(rel)])
    /\ \A i \in 1..Len(rel) : rel[i] \notin commit_deny_dirs(fsPre)
    /\ StartsWith(Resolve(ServicePath \o rel), ServicePath)
    /\ (ServicePath \o rel) \in DOMAIN fsPre =>
            fsPre[WorkPath \o rel] # fsPre[ServicePath \o rel]

\* C6 as stated: a file of the original tree gets another content only under the rules
\* of MayCommit, a file is created only under those rules or as the backup of an
\* overwritten file, and no file is deleted.
C6_CommitFrameAsStated ==
    committed =>
        /\ \A rel \in Tree(fsPre, ServicePath) :
            /\ rel \in Tree(fs, ServicePath)
            /\ fs[ServicePath \o rel] # fsPre[ServicePath \o rel] => MayCommit(rel)
        /\ \A rel \in Tree(fs, ServicePath) \ Tree(fsPre, ServicePath) :
            \/ MayCommit(rel)
            \/ \E dst \in Overwritten : NamePlusBackup(dst) = ServicePath \o rel

\* C6 amended: as stated, except that the backup file of an overwritten file is also
\* written when it exists already.
C6_CommitFrame ==
    committed =>
        /\ \A rel \in Tree(fsPre, ServicePath) : rel \in Tree(fs, ServicePath)
        /\ \A rel \in Tree(fs, ServicePath) :
            Written(fsPre, fs, ServicePath \o rel) =>
                \/ MayCommit(rel) /\ fs[ServicePath \o rel] = fsPre[WorkPath \o rel]
                \/ \E dst \in Overwritten :
                    /\ MayCommit(RelativeTo(dst, ServicePath))
                    /\ NamePlusBackup(dst) = ServicePath \o rel

\* A commit that wrote one file and left alone a file in a denied directory and a
\* file with a suffix off the allow-list, both changed in the working copy.
C6_Witness ==
    /\ committed
    /\ Overwritten # {}
    /\ (WorkPath \o <<build, g_py>>) \in DOMAIN fsPre
    /\ fsPre[WorkPath \o <<build, g_py>>] # fsPre[ServicePath \o <<build, g_py>>]
    /\ fs[ServicePath \o <<build, g_py>>] = fsPre[ServicePath \o <<build, g_py>>]

PatchDone == pc \in {"validate", "size", "approval", "commit", "returned"} /\ temp_dir = run

\* C7: a step that declares a file missing from the original tree yields no Change
\* record and a warning that names the missing files.
C7_ClosedWorldDrop ==
    PatchDone =>
        \A k \in 1..Len(plan) :
            LET files == plan[k].files_affected
                gone == {i \in 1..Len(files) : ~Exists(fsStart, Join(ServicePath, files[i]))}
            IN gone # {} =>
                /\ \A i \in 1..Len(raw) : raw[i].step # k
                /\ \E w \in log :
                    /\ w.step = k
                    /\ \A i \in gone : \E j \in 1..Len(w.paths) : w.paths[j] = files[i]

\* C8: the explicit-patch loop creates no file: the files on disk after it are the
\* files that were there after the copy, in the working copy and elsewhere.
C8_PatchCreatesNoFile ==
    PatchDone =>
        /\ DOMAIN fsPatched = DOMAIN fsCopied
        /\ Tree(fsPatched, WorkPath) = Tree(fsStart, ServicePath)

PastApproval == sizeChecked /\ pc # "approval"

\* C9: an interactive run prompts before any commit, whatever apply is; a
\* non-interactive run never prompts, commits when apply is true, and otherwise
\* returns success with the original tree as it was.
C9_ApprovalModes ==
    /\ (interactive /\ (committed \/ pc = "commit" \/ PastApproval)) => prompted
    /\ ~interactive => ~prompted
    /\ (~interactive /\ PastApproval /\ apply) => (pc = "commit" \/ committed)
    /\ (~interactive /\ PastApproval /\ ~apply) =>
            result = "True" /\ ~committed /\ Original(fs) = Original(fsStart)

\* An interactive run with apply set that was asked and declined, and whose working
\* copy held changes.
C9_Witness ==
    /\ interactive /\ apply /\ prompted /\ ~approved
    /\ pc = "returned"

\* C10: a run the operator declined at the prompt returns success and leaves the
\* original tree as it was.
C10_RejectionIsSuccess ==
    (prompted /\ Returned /\ ~approved) =>
        result = "True" /\ Original(fs) = Original(fsStart)

\* The positions of q whose element occurs at no earlier position, in order.
FirstSeen(q) ==
    LET first(i) == \A j \in 1..(i - 1) : q[j] # q[i]
    IN SelectSeq([i \in 1..Len(q) |-> i], first)

\* C11: the list the pipeline returns has at most one record for each file, the
\* record's lines_changed is the largest lines_changed of the raw records of that file,
\* and the files come in the order of their first raw record.
C11_Dedup ==
    LET files == [i \in 1..Len(raw) |-> raw[i].file]
        order == FirstSeen(files)
    IN /\ \A i, j \in 1..Len(changes) : changes[i].file = changes[j].file => i = j
       /\ Len(changes) = Len(order)
       /\ \A i \in 1..Len(changes) :
            /\ changes[i].file = files[order[i]]
            /\ \E j \in 1..Len(raw) :
                    raw[j].file = changes[i].file /\ raw[j].lines_changed = changes[i].lines_changed
            /\ \A j \in 1..Len(raw) :
                    raw[j].file = changes[i].file => raw[j].lines_changed <= changes[i].lines_changed

\* Two steps recorded the same file, the later one with the larger count, and another
\* file was recorded as well.
C11_Witness ==
    /\ \E i, j \in 1..Len(raw) :
            i < j /\ raw[i].file = raw[j].file /\ raw[i].lines_changed < raw[j].lines_changed
    /\ Len(changes) > 1

\* The applications of a transformer after its first one.
SecondApplication == (pc = "t1" /\ pc' = "t2") \/ (pc = "s1" /\ pc' = "s2")

\* C12: for every deterministic transformer (each branch of the dispatch on the step
\* id, and the safe transformer of the language migrators whatever function it is
\* given) and every file content, applying the transformer twice in succession leaves
\* the file with the content the first application left.
C12_TransformerIdempotent == [][SecondApplication => fs' = fs]_vars

\* A transformer rewrote the file, and was applied once more.
C12_Witness == pc \in {"t2", "s2"} /\ fs # fsPatched

\* C13: a file of the working copy whose content already contains the marker token
\* MODX_DETERMINISTIC_FALLBACK is not modified by any transformer the dispatch on the
\* step id runs, at its first application or at a later one.
C13_MarkerGuard ==
    pc \in {"t1", "t2"} =>
        \A q \in DOMAIN fsPatched :
            (IsUnder(q, WorkPath) /\ has_marker(fsPatched[q])) => fs[q] = fsPatched[q]

\* The entries of the sections dependencies and devDependencies of a package.json
\* text, in the order of the text: a quoted string in front of ':' is a key, a quoted
\* string after it is the value of the last key; a section is a key of the outer object.
DepTypes == {<<"dependencies">>, <<"devDependencies">>}

RECURSIVE ScanJson(_, _, _, _, _, _)
ScanJson(t, i, depth, key, section, acc) ==
    IF i > Len(t) THEN acc
    ELSE IF t[i] = Q
    THEN LET j == Find(t, <<Q>>, i + 1)
             str == SubSeq(t, i + 1, j - 1)
             n == SkipSpace(t, j + 1)
         IN IF j = 0 THEN acc
            ELSE IF n <= Len(t) /\ t[n] = ":" THEN ScanJson(t, j + 1, depth, str, section, acc)
            ELSE ScanJson(t, j + 1, depth, key, section,
                          IF depth = 2 /\ section \in DepTypes
                          THEN Append(acc, [dep_type |-> section, pkg |-> key, ver |-> str])
                          ELSE acc)
    ELSE IF t[i] = "{"
    THEN ScanJson(t, i + 1, depth + 1, key, IF depth = 1 THEN key ELSE section, acc)
    ELSE IF t[i] = "}" THEN ScanJson(t, i + 1, depth - 1, key, section, acc)
    ELSE ScanJson(t, i + 1, depth, key, section, acc)

DepVersions(t) == ScanJson(t, 1, 0, <<>>, <<>>, <<>>)

\* ver.startswith('^0.') or ver.startswith('~0.')
IsZeroRange(ver) == StartsWith(ver, <<"^", "0", ".">>) \/ StartsWith(ver, <<"~", "0", ".">>)

\* C17: when the dispatch on the step id has handled a step with id update_js_deps, or
\* update_dependencies, over a working copy with a package.json, every dependencies
\* and devDependencies version string of package.json that began with '^0.' or '~0.'
\* is '^1.0.0', every other version string is as it was, and a Change for
\* package.json is recorded.
C17_JsDepsBump ==
    LET pj == WorkPath \o <<package_json>>
    IN (/\ pc \in {"t1", "t2"}
        /\ plan[1].id \in {"update_js_deps", "update_dependencies"}
        /\ pj \in DOMAIN fsPatched) =>
           LET before == DepVersions(fsPatched[pj])
               after == DepVersions(fs[pj])
           IN /\ Len(after) = Len(before)
              /\ \A i \in 1..Len(before) :
                    /\ after[i].dep_type = before[i].dep_type
                    /\ after[i].pkg = before[i].pkg
                    /\ after[i].ver = (IF IsZeroRange(before[i].ver) THEN V_bumped
                                       ELSE before[i].ver)
              /\ (\E i \in 1..Len(before) : IsZeroRange(before[i].ver)) =>
                    \E i \in 1..Len(raw) : raw[i].file = <<package_json>>

\* The Python files of the working copy that do not compile.
NotCompiling(f) ==
    {r \in Tree(f, WorkPath) : EndsWith(r[Len(r)], py) /\ ~Compiles(f[WorkPath \o r])}

\* C16: when the validators have run over a working copy in which some Python file
\* does not compile, the gate has failed whatever the test runner and the linter
\* did, migrate has returned False without prompting and without committing, and the
\* offending file of the original tree is as it was.
C16_CompileFailureAborts ==
    (validated # "none" /\ NotCompiling(fs) # {}) =>
        /\ validated = "fail"
        /\ result = "False"
        /\ ~prompted
        /\ ~committed
        /\ \A r \in NotCompiling(fs) :
              /\ (ServicePath \o r) \in DOMAIN fs <=> (ServicePath \o r) \in DOMAIN fsStart
              /\ (ServicePath \o r) \in DOMAIN fs => fs[ServicePath \o r] = fsStart[ServicePath \o r]

\* The gate failed over a working copy with a file that does not compile and that the
\* original tree has too.
C16_Witness ==
    /\ pc = "returned" /\ validated = "fail"
    /\ \E r \in NotCompiling(fs) : (ServicePath \o r) \in DOMAIN fs

\* The call before this one committed its changes to the original tree.
AfterCommittedRun == run > 1 /\ history[run - 1].committed

\* C14 as stated: after a call of migrate that committed its changes, a second call
\* over the same tree, with the same model setting and apply=true, leaves every file
\* of the original tree as it was.
C14_RunIdempotentAsStated ==
    (AfterCommittedRun /\ apply) => Original(fs) = Original(fsStart)

\* C14, amended: the same with the model disabled.
C14_RunIdempotent ==
    (AfterCommittedRun /\ apply /\ ~use_ai) => Original(fs) = Original(fsStart)

\* With the model disabled, the second call went as far as the commit.
C14_Witness == AfterCommittedRun /\ apply /\ ~use_ai /\ committed /\ changes # <<>>


(***************************************************************************)
(* The print fix from end to end.                                          *)
(***************************************************************************)
\* The Python files of the original tree f, as relative paths.
PythonFiles(f) == {rel \in Tree(f, ServicePath) : EndsWith(rel[Len(rel)], py)}

\* The numbers of the old-style statement lines of a text.
OldPrintLines(text) == {i \in 1..Len(Split(text)) : IsOldPrint(Split(text)[i])}

\* The line is a call print(<expr>).
CallForm(line) ==
    StartsWith(Strip(line), <<"p", "r", "i", "n", "t", "(">>) /\ EndsWith(Strip(line), <<")">>)

\* migrate(interactive=False, apply=True) has returned with the model disabled and
\* the validators have passed.
PrintFixRun ==
    /\ pc \in {"returned", "done"}
    /\ ~use_ai /\ ~interactive /\ apply
    /\ validated = "pass"

\* What the claim promises for line i of the file rel of the original tree.
PrintFixed(rel, i) ==
    /\ result = "True"
    /\ \E k \in 1..Len(plan) : plan[k].id = "python_print_function"
    /\ (ServicePath \o rel) \in DOMAIN fs
    /\ i <= Len(Split(fs[ServicePath \o rel]))
    /\ CallForm(Split(fs[ServicePath \o rel])[i])

\* The file is one the analyzer reports as a python2_print issue and no part of its
\* path is a denied directory.
ReportedAndCommittable(rel) ==
    /\ \E j \in 1..Len(Python2PrintFiles(fsStart)) : Python2PrintFiles(fsStart)[j] = rel
    /\ \A j \in 1..Len(rel) : rel[j] \notin commit_deny_dirs(fsStart)

\* C15 as stated: with the model disabled and the validators passing, after
\* migrate(interactive=False, apply=True) over a tree with a Python file that has an
\* old-style print line, migrate returned True, the plan has the step
\* python_print_function and that line of the original file is in call form.
C15_PrintFixAsStated ==
    PrintFixRun =>
        \A rel \in PythonFiles(fsStart) :
            \A i \in OldPrintLines(fsStart[ServicePath \o rel]) : PrintFixed(rel, i)

\* C15, amended: the same for a Python file that the analyzer reports as a
\* python2_print issue (one of the first ten *.py files, holding 'print ' and not the
\* __future__ import) and that lies in no denied directory.
C15_PrintFix ==
    PrintFixRun =>
        \A rel \in PythonFiles(fsStart) :
            ReportedAndCommittable(rel) =>
                \A i \in OldPrintLines(fsStart[ServicePath \o rel]) : PrintFixed(rel, i)

\* Such a run over a tree with a reported old-style print line outside the denied
\* directories, which the run committed in call form.
C15_Witness ==
    /\ PrintFixRun /\ committed
    /\ \E rel \in PythonFiles(fsStart) :
          /\ ReportedAndCommittable(rel)
          /\ OldPrintLines(fsStart[ServicePath \o rel]) # {}
          /\ fs[ServicePath \o rel] # fsStart[ServicePath \o rel]

(***************************************************************************)
(* The working copies of the runs.                                         *)
(***************************************************************************)
\* C18: once the calls of migrate on the migrator are over and cleanup has been
\* called, the temporary directory of no run exists any more, whatever each run
\* returned or raised.
C18_WorkingCopyDiscarded ==
    pc = "done" => \A r \in 1..run : ~IsDir(fs, TempDirOf(r))

(***************************************************************************)
(* A planner that needs the model while the backend is down.               *)
(***************************************************************************)
\* C19: when the planner needs the model (use_ai) and the backend reports that it is
\* unavailable, plan() raises and hands out no plan: the run of migrate ends by
\* raising, returns nothing, makes no working copy, handles no step of a plan and
\* leaves the file system, the original tree included, as it was.
C19_BackendDownFailsFast ==
    backend = "down" =>
        /\ use_ai
        /\ pc \in {"raised", "done"}
        /\ result = "none"
        /\ temp_dir = 0
        /\ fs = fsStart
        /\ changes = <<>> /\ raw = <<>> /\ second = <<>> /\ log = {}
        /\ ~prompted /\ ~committed

\* migrate has raised because the backend was down, over a tree for which the
\* planner of the model has steps.
C19_Witness ==
    backend = "down" /\ pc = "raised" /\ plan # <<>>

(***************************************************************************)
(* The model path and the deterministic dispatch of a step.                *)
(***************************************************************************)
\* The Change records that the deterministic transformers made for step k.
FallbackRecords(k) ==
    {i \in 1..Len(raw) : raw[i].step = k /\ raw[i].type # "ai_patch"}

\* C20: for every step that the second loop handled and did not drop, the dispatch
\* on the step id was reached exactly when the model path changed no file for the
\* step: always when the model was unavailable, never after a change by the model.
\* A step whose dispatch was not reached has no record of a deterministic
\* transformer, and after the print fix was dispatched no Python file of the working
\* copy keeps an old-style print line.
C20_FallbackIffNoModelChange ==
    /\ Len(second) \in {0, Len(plan)}
    /\ \A j \in 1..Len(second) :
          /\ second[j].step = j /\ second[j].id = plan[j].id
          /\ second[j].dropped => ~second[j].dispatched /\ ~second[j].changed_any
          /\ ~second[j].dropped => (second[j].dispatched <=> ~second[j].changed_any)
          /\ (~second[j].dropped /\ ~second[j].ai_available) => second[j].dispatched
          /\ second[j].changed_any => second[j].ai_available
          /\ ~second[j].dispatched => FallbackRecords(j) = {}
          /\ (pc = "validate" /\ second[j].dispatched /\ second[j].id = "python_print_function")
                => \A i \in 1..Len(RGlob(fs, py)) :
                       OldPrintLines(fs[WorkPath \o RGlob(fs, py)[i]]) = {}

\* A step was given to the model, no attempt gave a usable diff, and the dispatch on
\* the step id made a Change; another step was handled with the model unavailable.
C20_Witness ==
    /\ \E j \in 1..Len(second) :
          /\ second[j].ai_available /\ ~second[j].dropped /\ second[j].dispatched
          /\ \E l \in log : l.msg = "no_valid_diff" /\ l.step = j
          /\ FallbackRecords(j) # {}
    /\ \E j \in 1..Len(second) : ~second[j].ai_available /\ second[j].dispatched

(***************************************************************************)
(* The model path (SpecAi).                                                *)
(***************************************************************************)
\* The loop is done with the first step of the plan and has not begun the second.
FirstStepOver == pc = "model" /\ StepsDone = 1

FirstTarget == NormTargets(fsCopied, Targets(fsCopied, plan[1]))[1]

TouchesOriginal(diff_text) ==
    \E i \in 1..Len(changed_files(diff_text)) :
        Exists(fsCopied, Join(ServicePath, PathOf(changed_files(diff_text)[i])))

\* The text the backend holds for the first request is a diff that line 294 lets
\* through, that the tool accepts on the fresh working copy, and that names a file of
\* the original tree.
FirstAnswer == Held(model, FirstTarget, FALSE)

FirstAnswerGood ==
    /\ model.git = "ok"
    /\ ValidDiff(FirstAnswer)
    /\ GitApplyCheck(fsCopied, FirstAnswer)
    /\ TouchesOriginal(FirstAnswer)

RequestsOf(k, tgt) ==
    {i \in 1..Len(second) : /\ ~IsStepNote(i)
                            /\ second[i].step = k
                            /\ second[i].target = RelativeTo(tgt, WorkPath)}

AiRecord(k, name) ==
    \E i \in 1..Len(raw) : /\ raw[i].step = k
                            /\ raw[i].type = "ai_" \o plan[k].id
                            /\ raw[i].file = PathOf(name)

\* C21: when the model is available and the backend's answer to the first request of a
\* target is a well-formed diff that passes the dry run, applies and touches a file of
\* the original tree, the working copy is the copy with that diff applied, every file
\* the diff names has a Change tagged ai_<step id>, no second request was made for the
\* target and the step was not handed to the deterministic dispatch.
C21_FirstAnswerApplied ==
    (FirstStepOver /\ FirstAnswerGood) =>
        /\ Working(fs) = Working(GitApply(fsCopied, FirstAnswer))
        /\ \A i \in 1..Len(changed_files(FirstAnswer)) :
               AiRecord(1, changed_files(FirstAnswer)[i])
        /\ \A i \in RequestsOf(1, FirstTarget) : second[i].request = 1
        /\ \A i \in 1..Len(second) : IsStepNote(i) => ~second[i].dispatched

\* The requests number n that `second` notes for the target of note i.
RequestsLike(i, n) ==
    {j \in 1..Len(second) : /\ ~IsStepNote(j)
                            /\ second[j].step = second[i].step
                            /\ second[j].target = second[i].target
                            /\ second[j].request = n}

\* An answer is rejected: absent, the sentinel, or without the '---' line and the
\* '+++' line.
Rejected(answer) ==
    answer = <<>> \/ Strip(answer) = NO_DIFF_AVAILABLE \/ ~ValidDiff(answer)

NoValidDiffSaid(k, target) ==
    [msg |-> "no_valid_diff", step |-> k, paths |-> <<target>>] \in log

IsAiRecord(r) == r.type = "ai_" \o plan[r.step].id

FirstAnswerUnreal ==
    /\ model.git = "ok"
    /\ model.accepts_minimal
    /\ ValidDiff(FirstAnswer)
    /\ GitApplyCheck(fsCopied, FirstAnswer)
    /\ ~TouchesOriginal(FirstAnswer)

Asked(k, t) ==
    \E j \in 1..Len(second) :
        ~IsStepNote(j) /\ second[j].step = k /\ second[j].target = t /\ second[j].request = 1

C26_StepsInPlanOrder ==
    \A i, j \in 1..Len(raw) : i < j => raw[i].step <= raw[j].step

\* The second loop asked the model for a diff of a file of the step of note i: the
\* model was available, the step was not dropped, and it has a target.
AskedModel(i) ==
    /\ second[i].ai_available
    /\ ~second[i].dropped
    /\ NormTargets(fsPatched, Targets(fsPatched, plan[second[i].step])) # <<>>

\* C27: for a step that carries a non-empty patch mapping no model diff is requested
\* and the dispatch on the step id is not reached.
C27_PatchStepOnlyPatched ==
    \A i \in 1..Len(second) :
        plan[second[i].step].patch # <<>> => ~AskedModel(i) /\ ~second[i].dispatched

(***************************************************************************)
(* The deterministic transformers and the syntax check (SpecRuns).         *)
(***************************************************************************)
\* The Change types of the deterministic transformers.
TransformerTypes ==
    {"python_print_fix", "type_hints", "update_dependencies", "es6_syntax", "java_modernize"}

\* C28: when the pipeline has returned, every Python file that a deterministic
\* transformer wrote passes the syntax check of its language (compile): a candidate
\* that does not is never written.
C28_NoInvalidCandidate ==
    pc = "validate" =>
        \A i \in 1..Len(raw) :
            (raw[i].type \in TransformerTypes /\ IsPython(raw[i].file)) =>
                Compiles(fs[WorkPath \o raw[i].file])

(***************************************************************************)
(* The deny-set in the pipeline (Spec).                                    *)
(***************************************************************************)
\* C30: the pipeline modifies no file of the working copy whose path, relative to the
\* root of the working copy, has a segment in the deny-set.
C30_DeniedFilesUntouched ==
    \A q \in DOMAIN fsPatched :
        (IsUnder(q, WorkPath) /\ is_denied(fsCopied, q)) =>
            /\ ~Written(fsCopied, fsPatched, q)
            /\ (pc = "validate" => ~Written(fsCopied, fs, q))

(***************************************************************************)
(* The validation gate (SpecGate).                                         *)
(***************************************************************************)
SyntaxPassed == \A rel \in Tree(fs, WorkPath) : IsPython(rel) => Compiles(fs[WorkPath \o rel])
TestsPassed == gate.pytest \in {"absent", "pass", "no_tests"}
LintPassed == gate.flake8 \in {"absent", "pass", "style_only"}

\* C29: the gate returns pass exactly when no Python file fails to compile, the test
\* runner is absent, exits 0 or collects no tests, and the linter is absent, exits 0 or
\* reports only E3xx codes; and after a check has failed, `success` is False at every
\* later point of the gate.
C29_GatePassIff ==
    /\ pc = "gate_done" =>
          /\ validated = (IF gate.success THEN "pass" ELSE "fail")
          /\ validated = "pass" <=> (SyntaxPassed /\ TestsPassed /\ LintPassed)
          /\ validated = "pass" <=> _run_validators(fs, gate.pytest, gate.flake8)
    /\ (pc \in {"tests", "lint", "gate_done"} /\ ~SyntaxPassed) => ~gate.success
    /\ (pc \in {"lint", "gate_done"} /\ ~TestsPassed) => ~gate.success

\* The gate has passed a tree with Python files, with a test run that collected
\* nothing and a lint run that reported style codes only.
C29_Witness ==
    /\ pc = "gate_done"
    /\ validated = "pass"
    /\ gate.pytest = "no_tests"
    /\ gate.flake8 = "style_only"
    /\ \E rel \in Tree(fs, WorkPath) : IsPython(rel)

(***************************************************************************)
(* The ignore file (SpecIgnore).                                           *)
(***************************************************************************)
\* The directory names an ignore text lists: its stripped lines that are not blank and
\* no comment, without a trailing '/'.
ListedNames(text) ==
    LET lines == SplitLines(text)
        listed(l) == l # <<>> /\ l[1] # "#"
        name(l) == IF l[Len(l)] = "/" THEN SubSeq(l, 1, Len(l) - 1) ELSE l
    IN {name(Strip(lines[i])) : i \in {j \in 1..Len(lines) : listed(Strip(lines[j]))}}

IgnoreText == fsStart[ServicePath \o <<modxignore>>]

\* C31: the deny-set of the pipeline holds the baseline and every name the ignore file
\* of the original tree lists; so once the patch loop is over, no file below a listed
\* directory has been written.
C31_IgnoreFileDenied ==
    /\ BaselineDeny \subseteq deny_dirs(fs)
    /\ ListedNames(IgnoreText) \subseteq deny_dirs(fs)
    /\ (pc = "patched" /\ gen \in ListedNames(IgnoreText)) =>
          ~Written(fsCopied, fs, WorkPath \o <<gen, a_py>>)

(***************************************************************************)
(* The audit files (SpecAi).                                               *)
(***************************************************************************)
\* The files below the audit directory of the run.
AuditFiles ==
    {q \in DOMAIN fs : StartsWith(q, TempDir \o << <<".", "modx_artifacts">>, <<"ai_diffs">>,
                                                  <<"ts">> >>)}

OldOf(rel) == SplitLines(fsCopied[WorkPath \o rel])
NewOf(rel) == SplitLines(fs[WorkPath \o rel])

\* C33: the lines_changed of a record is the number of lines the line diff between the
\* old and the new content removes plus the number of lines it adds, whatever those
\* lines begin with.
C33_LinesChangedCountsAll ==
    pc = "patched" =>
        \A i \in 1..Len(raw) :
            raw[i].lines_changed =
                Len(Removed(OldOf(raw[i].file), NewOf(raw[i].file)))
                + Len(Added(OldOf(raw[i].file), NewOf(raw[i].file)))

(***************************************************************************)
(* The steps made from the model's insights (SpecSteps).                   *)
(***************************************************************************)
StepsFrom(k) == SelectSeq(plan, LAMBDA s : s.insight = k)

\* ceil(est / 500), not computed the way line 78 computes it.
Ceil500(est) == CHOOSE n \in 0..est : 500 * (n - 1) < est /\ est <= 500 * n

RECURSIVE SumLoc(_)
SumLoc(q) == IF q = <<>> THEN 0 ELSE q[1].estimated_loc + SumLoc(Tail(q))

MakesSteps(insight) == insight.type \in {"suggestion", "issue"}

\* C34: every step made from an insight whose estimate is positive has an estimated_loc
\* from 1 to 500; an estimate est above 500 gives ceil(est/500) steps with pairwise
\* distinct ids, none above 500, whose estimates sum to at most est.
C34_StepsWithinLimit ==
    (pc = "planned" /\ findings.ai_enhanced) =>
        \A k \in 1..Len(findings.ai_insights) :
            LET est == Estimate(findings.ai_insights[k])
                mine == StepsFrom(k)
            IN (MakesSteps(findings.ai_insights[k]) /\ est > 0) =>
                   /\ mine # <<>>
                   /\ \A i \in 1..Len(mine) :
                        1 <= mine[i].estimated_loc /\ mine[i].estimated_loc <= 500
                   /\ est > 500 =>
                        /\ Len(mine) = Ceil500(est)
                        /\ \A i, j \in 1..Len(mine) : i # j => mine[i].id # mine[j].id
                        /\ SumLoc(mine) <= est

\* An estimate above 500 that 500 does not divide has been split.
C34_Witness ==
    /\ pc = "planned"
    /\ findings.ai_enhanced
    /\ Len(findings.ai_insights) = 1
    /\ Estimate(findings.ai_insights[1]) = 1001
    /\ Len(plan) = 3
    /\ SumLoc(plan) = 999

(***************************************************************************)
(* The whitespace fixer (SpecFix).                                         *)
(***************************************************************************)
IsBlankLine(line) == Strip(line) = <<>>
NonBlank(text) == SelectSeq(SplitLines(text), LAMBDA l : ~IsBlankLine(l))

IsDefOrClass(line) == IsTopLevelDef(line) \/ StartsWith(line, CLASS_)

TwoBlankBefore(lines, i) ==
    i > 2 /\ IsBlankLine(lines[i - 1]) /\ IsBlankLine(lines[i - 2])

OnlyInWorkCopy ==
    /\ DOMAIN fs = DOMAIN fsPre
    /\ \A p \in DOMAIN fs : fs[p] # fsPre[p] => (InsideWork(p) /\ Suffix(p[Len(p)]) = py)

\* C35: the fixer ends; it changes only files of the working copy, leaves the non-blank
\* lines of each file as they were, in their order, and afterwards every top-level
\* function or class definition line has two blank lines in front of it.
C35_FixerBlankLines ==
    pc = "autofixed" =>
        /\ OnlyInWorkCopy
        /\ \A p \in DOMAIN fs :
            (InsideWork(p) /\ Suffix(p[Len(p)]) = py) =>
                /\ NonBlank(fs[p]) = NonBlank(fsPre[p])
                /\ \A i \in 1..Len(SplitLines(fs[p])) :
                     IsDefOrClass(SplitLines(fs[p])[i]) => TwoBlankBefore(SplitLines(fs[p]), i)

(***************************************************************************)
(* var declarations (SpecJs).                                              *)
(***************************************************************************)
JsOld == SplitLines(fsCopied[WorkPath \o <<app_js>>])

\* The lines of app.js without the marker line that JSMigrator puts in front.
JsNew ==
    SelectSeq(SplitLines(fs[WorkPath \o <<app_js>>]),
              LAMBDA l : ~Contains(l, <<MODX_DETERMINISTIC_FALLBACK>>))

AssignedAfter(lines, i) ==
    \E j \in (i + 1)..Len(lines) : Assigns(lines[j], DeclaredName(lines[i], 1, FALSE))

WithKind(line, kind) ==
    SubSeq(line, 1, Len(line) - Len(LStrip(line)))
    \o ReplaceFirst(LStrip(line), VAR_, kind \o <<" ">>)

\* C36: after the es6 transformer each var declaration reads `let` when its variable is
\* assigned on a later line, and `const` when it is not.
C36_VarToLetOrConst ==
    pc \in {"dispatch_done", "migrator_done"} =>
        /\ Len(JsNew) = Len(JsOld)
        /\ \A i \in 1..Len(JsOld) :
             IsVarLine(JsOld[i]) =>
                 JsNew[i] = WithKind(JsOld[i], IF AssignedAfter(JsOld, i) THEN LET3 ELSE CONST5)

(***************************************************************************)
(* What the commit copies, against the Change list (Spec).                 *)
(***************************************************************************)
ChangedNames == {changes[i].file : i \in 1..Len(changes)}

\* C37: every file the commit overwrote or created in the original tree is named in the
\* final Change list.
C37_CommitOnlyRecorded ==
    committed => \A i \in 1..Len(applied) : applied[i].file \in ChangedNames

(***************************************************************************)
(* The original tree after the commit, against the working copy (Spec).    *)
(***************************************************************************)
InDeniedDir(rel) == \E i \in 1..Len(rel) : rel[i] \in commit_deny_dirs(fsPre)

SameAsWorkingCopy(rel) ==
    /\ (ServicePath \o rel) \in DOMAIN fs
    /\ fs[ServicePath \o rel] = fsPre[WorkPath \o rel]

\* C38: after an approved commit every file of the final Change list that lies in no
\* denied directory has, in the original tree, the bytes it has in the working copy,
\* whatever its type.
C38_CommittedEqualsWorkingCopy ==
    (committed /\ approved) =>
        \A i \in 1..Len(changes) :
            ((WorkPath \o changes[i].file) \in DOMAIN fsPre /\ ~InDeniedDir(changes[i].file))
                => SameAsWorkingCopy(changes[i].file)

(***************************************************************************)
(* The Change list against the working copy (Spec).                        *)
(***************************************************************************)
DiffersFromOriginal(rel) ==
    /\ (WorkPath \o rel) \in DOMAIN fs
    /\ (ServicePath \o rel) \in DOMAIN fs => fs[WorkPath \o rel] # fs[ServicePath \o rel]

WorkingCopyDiffers ==
    \E p \in DOMAIN fs :
        /\ InsideWork(p)
        /\ LET rel == RelativeTo(p, WorkPath)
           IN (ServicePath \o rel) \in DOMAIN fs => fs[p] # fs[ServicePath \o rel]

\* C39: when the patch pipeline has returned, every Change record names a file whose
\* content in the working copy differs from its content in the original tree; a
\* non-empty Change list therefore means that the working copy differs from the tree.
C39_ChangeMeansDifference ==
    pc = "validate" =>
        /\ \A i \in 1..Len(changes) : DiffersFromOriginal(changes[i].file)
        /\ changes # <<>> => WorkingCopyDiffers

====
